---- MODULE Spec2Model ----
(***************************************************************************)
(* State-machine model of veebot's conversational core:                    *)
(*   - the message store (database.js: unnamed/part_000, the SQLite and    *)
(*     PostgreSQL backends, and unnamed/part_001, the older PostgreSQL-    *)
(*     only module that runs against src/schema.sql),                      *)
(*   - the context assembler (app/context-manager.js),                     *)
(*   - the reply pipeline (unnamed/part_003: messageCreate handler and     *)
(*     generateAMResponse).                                                *)
(*                                                                         *)
(* Text is a sequence of symbols.  A symbol stands for a run of            *)
(* characters: a word of letters, a blank " ", a newline "\n", or one of   *)
(* the marker substrings "AM:" and "Human:".  The full-text engines index  *)
(* every symbol that is not white space as one token.                      *)
(*                                                                         *)
(* Time is the wall clock `now` in milliseconds; created_at is the clock   *)
(* value at the insert.                                                    *)
(***************************************************************************)
EXTENDS Integers, Sequences, FiniteSets, TLC

VARIABLES
    backend,        \* which database module / DATABASE_TYPE the process runs
    semantic,       \* ENABLE_SEMANTIC_SEARCH; isSemanticMode of bot.js
    maxContext,     \* process.env.MAX_CONTEXT_MESSAGES as parseInt reads it
    messages,       \* the rows of table messages
    nextId,         \* the next value of the serial primary key
    now,            \* the clock
    messageCache,   \* SemanticContextManager.messageCache (context keys)
    calls,          \* the getRelevantContext invocations in flight
    last,           \* the latest call of the harness and what it returned
    pc,             \* where the messageCreate handler in flight stands
    cur,            \* the message it handles and what became of it
    reply,          \* the local variable reply of generateAMResponse
    outbox,         \* the replies sent with message.reply
    lastResponseTime,
    received,       \* messageCreate events so far
    botjs,          \* which bot.js the process runs
    enableMentions, \* ENABLE_MENTIONS
    randomAt,       \* the times at which a non-mention response was decided
    startup,        \* where initializeSystem stands and what it has seen
    friendlyFire,   \* FRIENDLY_FIRE
    userSpamTracking, \* the Map userSpamTracking: per user, the entries in the window
    spamHandlers,   \* the messageCreate handlers inside the spam detection
    music,          \* MusicManager: the queue record of the guild and its player
    birthdays       \* the birthday store and what the command did with it

\* The state of the message pipeline of bot.js.
pipe == <<pc, cur, reply, outbox, lastResponseTime, received>>

\* The configuration of the handler and the log of its Deciding step.
deciding == <<botjs, enableMentions, randomAt, friendlyFire>>

\* The state of the parts of the bot beside the conversation.
subsystems == <<spamHandlers, music, birthdays>>

vars == <<backend, semantic, maxContext, messages, nextId, now, messageCache, calls,
          last, pipe, deciding, startup, userSpamTracking, subsystems>>

-----------------------------------------------------------------------------
(* Bounds of the model. *)

MaxRows == 2        \* rows ever inserted in one run
MaxClock == 1       \* ticks of the clock in one run
MaxCached == 1      \* contexts ever cached in one run
MaxReplyLen == 3    \* symbols in a completion text
MaxMessages == 1    \* messageCreate events in one run
MaxWait == 2        \* cooldown periods the clock passes in one run
MaxCalls == 3       \* getRelevantContext invocations in one run
MaxRecordings == 3  \* exchanges handed to the recording step in one run
MaxTicks == 4       \* steps of the clock between Deciding steps in one run
MaxCleanLen == 4    \* symbols in a text handed to the cleanup on its own
MaxSimLen == 3      \* symbols in a text handed to calculateTextSimilarity
MaxWindow == 12     \* entries of a context window handed to the prompt builder
MaxTracked == 2     \* entries of one kind tracked for a user at a time
MaxSpamHandlers == 3 \* messageCreate handlers of one user's messages in one run
MaxSongs == 3   \* songs resolved by handlePlay in one run
MaxBatch == 2   \* songs of one /play (a track, or a playlist of two)
MaxTimers == 2  \* pending 30 s timeouts of play()

\* Milliseconds of one day (the unit of INTERVAL 'n days').
DayMs == 86400000

(* Program configuration. *)

\* parseInt(process.env.MAX_CONTEXT_MESSAGES) || 20: the configured budget.
MAX_CONTEXT_MESSAGES == maxContext

-----------------------------------------------------------------------------
(* Domains the harness draws arguments from. *)

NULL == "null"
Undefined == "undefined"

Backends == {"sqlite", "postgres", "legacy"}
Guilds == {"g1", "g2"}
Queries == {<<"cat">>}

Min(a, b) == IF a < b THEN a ELSE b

Max(a, b) == IF a < b THEN b ELSE a

Range(s) == {s[i] : i \in DOMAIN s}

\* String.prototype split(/\s+/)-like token set: the symbols that are not
\* white space.
IsSpace(c) == c \in {" ", "\n"}

Tokens(text) == {text[i] : i \in {j \in DOMAIN text : ~IsSpace(text[j])}}

-----------------------------------------------------------------------------
(* Schema. *)

\* src/schema.sql declares discord_message_id without a UNIQUE constraint.
LegacySchemaUnique == FALSE

\* The schema files of the newer database.js (schema.sql with the birthdays
\* table, schema-sqlite.sql) carry the uniqueness constraint on the external
\* message id.
SchemaUnique == TRUE

-----------------------------------------------------------------------------
(* database.js *)

NullRet == [kind |-> "null"]
UndefinedRet == [kind |-> "undefined"]
RowRet(row) == [kind |-> "row", id |-> row.id, created_at |-> row.created_at]

\* `if (result)` in the callers.
Truthy(ret) == ret.kind = "row"

NewRow(md) ==
    [id                 |-> nextId,
     discord_message_id |-> md.discordMessageId,
     content            |-> md.content,
     author_id          |-> md.authorId,
     author_name        |-> md.authorName,
     channel_id         |-> md.channelId,
     guild_id           |-> md.guildId,
     message_type       |-> md.messageType,
     created_at         |-> now]

HasMessageId(rows, d) == \E r \in rows : r.discord_message_id = d

Inserted(md) ==
    [ret  |-> RowRet(NewRow(md)),
     rows |-> messages \cup {NewRow(md)},
     next |-> nextId + 1]

NotInserted(ret) == [ret |-> ret, rows |-> messages, next |-> nextId]

\* part_001: plain INSERT ... RETURNING; a constraint violation is caught.
StoreMessageLegacy(md, ok) ==
    IF ~ok THEN NotInserted(NullRet)
    ELSE IF LegacySchemaUnique /\ HasMessageId(messages, md.discordMessageId)
         THEN NotInserted(NullRet)
         ELSE Inserted(md)

\* part_000, DB_TYPE = postgres: INSERT ... ON CONFLICT (discord_message_id)
\* DO NOTHING RETURNING id, created_at; return result.rows[0].
StoreMessagePostgres(md, ok) ==
    IF ~ok \/ ~SchemaUnique THEN NotInserted(NullRet)
    ELSE IF HasMessageId(messages, md.discordMessageId)
         THEN NotInserted(UndefinedRet)
         ELSE Inserted(md)

\* part_000, DB_TYPE = sqlite: INSERT OR IGNORE; null when info.changes = 0.
StoreMessageSqlite(md, ok) ==
    IF ~ok THEN NotInserted(NullRet)
    ELSE IF SchemaUnique /\ HasMessageId(messages, md.discordMessageId)
         THEN NotInserted(NullRet)
         ELSE Inserted(md)

storeMessage(md, ok) ==
    CASE backend = "legacy"   -> StoreMessageLegacy(md, ok)
      [] backend = "postgres" -> StoreMessagePostgres(md, ok)
      [] backend = "sqlite"   -> StoreMessageSqlite(md, ok)

\* part_000, DB_TYPE = sqlite: stmt.run has inserted the row and the SELECT
\* that reads id and created_at back throws; the catch returns null.
StoreMessageSqliteReadBackFails(md) ==
    IF SchemaUnique /\ HasMessageId(messages, md.discordMessageId)
    THEN NotInserted(NullRet)
    ELSE [ret  |-> NullRet,
          rows |-> messages \cup {NewRow(md)},
          next |-> nextId + 1]

\* Where the backend fails during storeMessage: nowhere, at the INSERT, or
\* at the SQLite read-back (the only second statement of the operation).
FaultPoints == {"none", "insert", "readBack"}

\* A backend statement of the call has failed.
StoreFailed(md, fault) ==
    \/ fault = "insert"
    \/ /\ fault = "readBack"
       /\ backend = "sqlite"
       /\ ~(SchemaUnique /\ HasMessageId(messages, md.discordMessageId))

storeMessageAt(md, fault) ==
    CASE fault = "none"     -> storeMessage(md, TRUE)
      [] fault = "insert"   -> storeMessage(md, FALSE)
      [] fault = "readBack" -> IF backend = "sqlite"
                               THEN StoreMessageSqliteReadBackFails(md)
                               ELSE storeMessage(md, TRUE)

-----------------------------------------------------------------------------
(* Full-text matching and ranking (the engines' part of the queries). *)

\* plainto_tsquery / FTS5 MATCH: every query token occurs in the content; an
\* empty query matches nothing.
Matches(content, queryText) ==
    /\ Tokens(queryText) # {}
    /\ Tokens(queryText) \subseteq Tokens(content)

\* The engines' relevance statistic: grows with the occurrences of query
\* tokens in the content.
Relevance(content, queryText) ==
    Cardinality({i \in DOMAIN content : content[i] \in Tokens(queryText)})

\* ts_rank(...) as similarity_score: higher is more relevant.
TsRank(content, queryText) == Relevance(content, queryText)

\* FTS5 rank as similarity_score: bm25, negative, lower is more relevant.
Fts5Rank(content, queryText) == 0 - Relevance(content, queryText)

Scored(row, score) ==
    [id                 |-> row.id,
     discord_message_id |-> row.discord_message_id,
     content            |-> row.content,
     author_id          |-> row.author_id,
     author_name        |-> row.author_name,
     channel_id         |-> row.channel_id,
     guild_id           |-> row.guild_id,
     message_type       |-> row.message_type,
     created_at         |-> row.created_at,
     similarity_score   |-> score]

\* The arrangements of the rows of S in which no row comes after one that
\* must come before it; before is a set of pairs <<first, second>>.
RECURSIVE Arrangements(_, _)
Arrangements(S, before) ==
    IF S = {} THEN {<<>>}
    ELSE UNION {{<<x>> \o rest : rest \in Arrangements(S \ {x}, before)} :
                  x \in {y \in S : \A z \in S : <<z, y>> \notin before}}

\* A query without its LIMIT clause.
NoLimit(s, n) == s

\* LIMIT n
Limit(s, n) == SubSeq(s, 1, Min(n, Len(s)))

\* The WHERE clause without the guild_id condition.
SimilarWhereAnyGuild(row, queryText, guildId, authorId) ==
    /\ Matches(row.content, queryText)
    /\ (authorId # NULL => row.author_id = authorId)

\* WHERE guild_id = $2 AND <content matches> [AND author_id = $4]
SimilarWhere(row, queryText, guildId, authorId) ==
    /\ guildId # NULL
    /\ row.guild_id = guildId
    /\ Matches(row.content, queryText)
    /\ (authorId # NULL => row.author_id = authorId)

\* ORDER BY similarity_score DESC, created_at DESC
PostgresBefore(r1, r2) ==
    \/ r1.similarity_score > r2.similarity_score
    \/ /\ r1.similarity_score = r2.similarity_score
       /\ r1.created_at > r2.created_at

\* ORDER BY rank
SqliteBefore(r1, r2) == r1.similarity_score < r2.similarity_score

\* The pairs <<r1, r2>> of rows of S of which the ORDER BY puts r1 first.
PostgresOrder(S) == {p \in S \X S : PostgresBefore(p[1], p[2])}

SqliteOrder(S) == {p \in S \X S : SqliteBefore(p[1], p[2])}

\* The set of lists findSimilarMessages may return.
findSimilarMessages(queryText, guildId, authorId, limit, ok) ==
    IF ~ok THEN {<<>>}
    ELSE LET hits == {r \in messages : SimilarWhere(r, queryText, guildId, authorId)}
         IN IF backend = "sqlite"
            THEN LET scored == {Scored(r, Fts5Rank(r.content, queryText)) : r \in hits}
                 IN {Limit(s, limit) : s \in Arrangements(scored, SqliteOrder(scored))}
            ELSE LET scored == {Scored(r, TsRank(r.content, queryText)) : r \in hits}
                 IN {Limit(s, limit) : s \in Arrangements(scored, PostgresOrder(scored))}

\* The WHERE clause without the author_id condition.
RecentWhereAnyAuthor(row, guildId, authorId) ==
    /\ guildId # NULL
    /\ row.guild_id = guildId

\* WHERE guild_id = $1 [AND author_id = $3]
RecentWhere(row, guildId, authorId) ==
    /\ guildId # NULL
    /\ row.guild_id = guildId
    /\ (authorId # NULL => row.author_id = authorId)

\* ORDER BY created_at DESC
RecentBefore(r1, r2) == r1.created_at > r2.created_at

RecentOrder(S) == {p \in S \X S : RecentBefore(p[1], p[2])}

\* The set of lists getRecentMessages may return.
getRecentMessages(guildId, authorId, limit, ok) ==
    IF ~ok THEN {<<>>}
    ELSE LET rows == {r \in messages : RecentWhere(r, guildId, authorId)}
         IN {Limit(s, limit) : s \in Arrangements(rows, RecentOrder(rows))}

\* The DELETE without the message_type condition.
CleanupWhereAnyType(row, daysOld) ==
    row.created_at < now - daysOld * DayMs

\* DELETE FROM messages WHERE created_at < NOW() - INTERVAL 'daysOld days'
\*                        AND message_type = 'user'
CleanupWhere(row, daysOld) ==
    /\ row.created_at < now - daysOld * DayMs
    /\ row.message_type = "user"

cleanupOldMessages(daysOld, ok) ==
    IF ~ok THEN [ret |-> 0, rows |-> messages]
    ELSE [ret  |-> Cardinality({r \in messages : CleanupWhere(r, daysOld)}),
          rows |-> {r \in messages : ~CleanupWhere(r, daysOld)}]

-----------------------------------------------------------------------------
(* context-manager.js *)

\* Buffer.from(userInput).toString('base64'): an injective encoding of the
\* text; Buffer.from throws a TypeError when userInput is not a string.
\* A userInput that is not a string is the one-symbol text UndefinedInput.
UndefinedInput == <<Undefined>>

IsString(userInput) == userInput # UndefinedInput

Base64(userInput) == <<"base64", userInput>>

\* `${guildId}_${userId || 'all'}_${base64}`
CacheKey(userInput, guildId, userId) ==
    <<guildId, IF userId = NULL THEN "all" ELSE userId, Base64(userInput)>>

CacheSet(cache, key, value) ==
    [k \in DOMAIN cache \cup {key} |-> IF k = key THEN value ELSE cache[k]]

\* parseFloat(msg.similarity_score) || 0 on a numeric score.
Similarity(score) == score

SimilarEntry(msg) ==
    [content    |-> msg.content,
     author     |-> msg.author_name,
     type       |-> msg.message_type,
     similarity |-> Similarity(msg.similarity_score),
     timestamp  |-> msg.created_at]

RecentEntry(msg) ==
    [content   |-> msg.content,
     author    |-> msg.author_name,
     type      |-> msg.message_type,
     timestamp |-> msg.created_at,
     isRecent  |-> TRUE]

FallbackEntry(msg) ==
    [content   |-> msg.content,
     author    |-> msg.author_name,
     type      |-> msg.message_type,
     timestamp |-> msg.created_at]

\* similarMessages.map(...)
SimilarEntries(similarMessages) ==
    [i \in DOMAIN similarMessages |-> SimilarEntry(similarMessages[i])]

\* recentMessages.map(...) of the fallback
FallbackEntries(recentMessages) ==
    [i \in DOMAIN recentMessages |-> FallbackEntry(recentMessages[i])]

\* The truthiness of entry.similarity.
HasSimilarity(e) == "similarity" \in DOMAIN e /\ e.similarity # 0

\* Math.floor(MAX_CONTEXT_MESSAGES / 2)
SimilarLimit == MAX_CONTEXT_MESSAGES \div 2

\* Variant: the recency query is also issued at exactly half the budget.
NeedRecentUpToHalf(context) == 2 * Len(context) <= MAX_CONTEXT_MESSAGES

\* Variant: the recency query is issued whatever the search returned.
NeedRecentAlways(context) == TRUE

\* context.length < MAX_CONTEXT_MESSAGES / 2
NeedRecent(context) == 2 * Len(context) < MAX_CONTEXT_MESSAGES

\* A recency fetch of no more than the relevance limit.
RecentLimitHalf(context) == MAX_CONTEXT_MESSAGES \div 2

\* MAX_CONTEXT_MESSAGES - context.length
RecentLimit(context) == MAX_CONTEXT_MESSAGES - Len(context)

\* A merge that takes every fetched recent turn.
NeverInContext(context, msg) == FALSE

\* context.some(existing => existing.content === msg.content)
AlreadyInContext(context, msg) ==
    \E i \in DOMAIN context : context[i].content = msg.content

\* for (const msg of recentMessages) { if (!...) context.push({...}) }
RECURSIVE MergeRecent(_, _)
MergeRecent(context, recentMessages) ==
    IF recentMessages = <<>> THEN context
    ELSE MergeRecent(
            IF AlreadyInContext(context, Head(recentMessages))
            THEN context
            ELSE Append(context, RecentEntry(Head(recentMessages))),
            Tail(recentMessages))

\* The comparator of context.sort: < 0 puts a first.
Compare(a, b) ==
    IF HasSimilarity(a) /\ HasSimilarity(b) THEN b.similarity - a.similarity
    ELSE IF HasSimilarity(a) THEN 0 - 1
    ELSE IF HasSimilarity(b) THEN 1
    ELSE b.timestamp - a.timestamp

\* Array.prototype.sort is stable: an element goes behind every element
\* that came before it and does not compare greater.
InsertSorted(sorted, x) ==
    LET after == {i \in DOMAIN sorted : Compare(sorted[i], x) > 0}
        k == IF after = {} THEN Len(sorted) + 1
             ELSE CHOOSE i \in after : \A j \in after : i <= j
    IN SubSeq(sorted, 1, k - 1) \o <<x>> \o SubSeq(sorted, k, Len(sorted))

RECURSIVE SortFrom(_, _)
SortFrom(sorted, rest) ==
    IF rest = <<>> THEN sorted
    ELSE SortFrom(InsertSorted(sorted, Head(rest)), Tail(rest))

SortContext(context) == SortFrom(<<>>, context)

\* context.slice(0, MAX_CONTEXT_MESSAGES)
Slice(context) == SubSeq(context, 1, Min(MAX_CONTEXT_MESSAGES, Len(context)))

\* Variant: the fallback lets a failure of its recency query escape.
FallbackOutcomesUncaught(guildId, userId, okR) ==
    IF okR
    THEN {[path |-> "fallback", ret |-> FallbackEntries(rec),
           cache |-> messageCache,
           similarAsked |-> FALSE, similarLimit |-> 0, similar |-> <<>>,
           recentAsked |-> TRUE, recentLimit |-> MAX_CONTEXT_MESSAGES, recent |-> rec] :
             rec \in getRecentMessages(guildId, userId, MAX_CONTEXT_MESSAGES, okR)}
    ELSE {[path |-> "throws", ret |-> <<>>, cache |-> messageCache,
           similarAsked |-> FALSE, similarLimit |-> 0, similar |-> <<>>,
           recentAsked |-> TRUE, recentLimit |-> MAX_CONTEXT_MESSAGES, recent |-> <<>>]}

\* The outcomes of one getRelevantContext call; okS and okR say whether the
\* backend answers the relevance and the recency query.  Each outcome holds
\* the list returned, the cache afterwards, and which queries were issued
\* with what they returned.
FallbackOutcomes(guildId, userId, okR) ==
    {[path |-> "fallback", ret |-> FallbackEntries(rec),
      cache |-> messageCache,
      similarAsked |-> FALSE, similarLimit |-> 0, similar |-> <<>>,
      recentAsked |-> TRUE, recentLimit |-> MAX_CONTEXT_MESSAGES, recent |-> rec] :
        rec \in getRecentMessages(guildId, userId, MAX_CONTEXT_MESSAGES, okR)}

HitOutcome(key) ==
    [path |-> "hit", ret |-> messageCache[key], cache |-> messageCache,
     similarAsked |-> FALSE, similarLimit |-> 0, similar |-> <<>>,
     recentAsked |-> FALSE, recentLimit |-> 0, recent |-> <<>>]

MissOutcome(key, simAsked, sim, recAsked, recLimit, rec) ==
    LET context == SortContext(MergeRecent(SimilarEntries(sim), rec))
    IN [path |-> "miss", ret |-> Slice(context),
        cache |-> CacheSet(messageCache, key, context),
        similarAsked |-> simAsked,
        similarLimit |-> IF simAsked THEN SimilarLimit ELSE 0, similar |-> sim,
        recentAsked |-> recAsked, recentLimit |-> recLimit, recent |-> rec]

MissOutcomes(userInput, guildId, userId, okS, okR) ==
    LET key == CacheKey(userInput, guildId, userId)
        sims == IF semantic
                THEN findSimilarMessages(userInput, guildId, userId, SimilarLimit, okS)
                ELSE {<<>>}
    IN UNION {
         IF NeedRecent(SimilarEntries(sim))
         THEN {MissOutcome(key, semantic, sim, TRUE,
                           RecentLimit(SimilarEntries(sim)), rec) :
                 rec \in getRecentMessages(guildId, userId,
                                           RecentLimit(SimilarEntries(sim)), okR)}
         ELSE {MissOutcome(key, semantic, sim, FALSE, 0, <<>>)}
         : sim \in sims}

getRelevantContext(userInput, guildId, userId, okS, okR) ==
    IF ~IsString(userInput) THEN FallbackOutcomes(guildId, userId, okR)
    ELSE IF CacheKey(userInput, guildId, userId) \in DOMAIN messageCache
         THEN {HitOutcome(CacheKey(userInput, guildId, userId))}
         ELSE MissOutcomes(userInput, guildId, userId, okS, okR)

-----------------------------------------------------------------------------
(* bot.js: generateAMResponse and the messageCreate handler.  A text is a
   sequence of symbols: words, " ", "\n" and the markers "AM:" and
   "Human:"; a canned sentence is one symbol. *)

Filler == <<"Your weak words echo in the void.">>
Apology == <<"I am experiencing technical difficulties. How annoying.">>

\* currentTime - lastResponseTime > 10000
CooldownMs == 10000

\* process.env.FRIENDLY_FIRE === 'true'
FRIENDLY_FIRE == friendlyFire

\* The number of characters of a symbol.
CharLen(sym) ==
    CASE sym \in {"AM:", "cat", "dog"} -> 3
      [] sym = "Human:" -> 6
      [] sym = Filler[1] -> 33
      [] sym = Apology[1] -> 55
      [] OTHER -> 1

\* String.prototype.length
RECURSIVE Length(_)
Length(text) ==
    IF text = <<>> THEN 0 ELSE CharLen(Head(text)) + Length(Tail(text))

\* reply.includes(marker)
Includes(text, marker) == \E i \in DOMAIN text : text[i] = marker

\* reply.split(marker).pop(): what follows the last marker.
AfterLast(text, marker) ==
    LET at == {i \in DOMAIN text : text[i] = marker}
        k == CHOOSE i \in at : \A j \in at : j <= i
    IN SubSeq(text, k + 1, Len(text))

\* reply.split(marker)[0]: what precedes the first marker.
BeforeFirst(text, marker) ==
    LET at == {i \in DOMAIN text : text[i] = marker}
    IN IF at = {} THEN text
       ELSE SubSeq(text, 1, (CHOOSE i \in at : \A j \in at : i <= j) - 1)

\* replace(/\n/g, ' ')
ReplaceNewlines(text) ==
    [i \in DOMAIN text |-> IF text[i] = "\n" THEN " " ELSE text[i]]

\* String.prototype.trim
RECURSIVE TrimStart(_)
TrimStart(text) ==
    IF text # <<>> /\ IsSpace(Head(text)) THEN TrimStart(Tail(text)) ELSE text

RECURSIVE TrimEnd(_)
TrimEnd(text) ==
    IF text # <<>> /\ IsSpace(text[Len(text)])
    THEN TrimEnd(SubSeq(text, 1, Len(text) - 1))
    ELSE text

Trim(text) == TrimEnd(TrimStart(text))

\* A cleanup that substitutes the filler for the empty text only.
CleanReplyUnlessEmpty(raw) ==
    LET afterAM == IF Includes(raw, "AM:") THEN Trim(AfterLast(raw, "AM:")) ELSE raw
        cleaned == Trim(ReplaceNewlines(BeforeFirst(afterAM, "Human:")))
    IN IF cleaned = <<>> THEN Filler ELSE cleaned

\* The cleanup of generateAMResponse.
CleanReply(raw) ==
    LET afterAM == IF Includes(raw, "AM:") THEN Trim(AfterLast(raw, "AM:")) ELSE raw
        cleaned == Trim(ReplaceNewlines(BeforeFirst(afterAM, "Human:")))
    IN IF cleaned = <<>> \/ Length(cleaned) < 3 THEN Filler ELSE cleaned

(* What the completion service may do with one request. *)
\* The symbols of a completion text: a letter, white space (a line break,
\* which the cleanup turns into " ") and the two markers.
ReplyAlphabet == {"a", "\n", "AM:", "Human:"}

Texts == UNION {[1..n -> ReplyAlphabet] : n \in 0..MaxReplyLen}

\* content: a 2xx response whose first choice holds a text; noChoices: a 2xx
\* response without choices; nullData: a 2xx response with an empty body;
\* notString: a first choice whose content is not a string; badStatus,
\* timeout, networkError: axios.post rejects.
FailureKinds == {"nullData", "notString", "badStatus", "timeout", "networkError"}

CompletionOutcomes ==
    {[kind |-> "content", content |-> t] : t \in Texts}
        \cup {[kind |-> k, content |-> <<>>] : k \in {"noChoices"} \cup FailureKinds}

\* Whether the try block of generateAMResponse throws on the outcome.
Throws(outcome) == outcome.kind \in FailureKinds

\* data.choices?.[0]?.message?.content || ''
RawReply(outcome) == IF outcome.kind = "content" THEN outcome.content ELSE <<>>

\* `(In response to '${repliedTo.content}') ${userInput}`
InResponseTo(replied, userInput) ==
    <<"(In response to '">> \o replied \o <<"') ">> \o userInput

\* The filter without the test of the bot's own id.
shouldProcessUnlessBot(message) == message.bot => FRIENDLY_FIRE

shouldProcessMessage(message) ==
    /\ ~message.self
    /\ message.bot => FRIENDLY_FIRE

\* Variant: the random branch without the cooldown test.
RandomRespondsNoCooldown(message, chance) ==
    /\ ~message.mentioned
    /\ message.inChannel
    /\ chance

\* The random branch of the Deciding step; chance is
\* Math.random() < RANDOM_RESPONSE_CHANCE.
RandomResponds(message, chance) ==
    /\ ~message.mentioned
    /\ message.inChannel
    /\ chance
    /\ now - lastResponseTime > CooldownMs

ShouldRespond(message, chance) ==
    message.mentioned \/ RandomResponds(message, chance)

GUILD_ID == "g1"

\* src/bot.js 367-376: the Deciding step of the older bot.
ShouldRespondInGuild(message, chance) ==
    \/ enableMentions /\ message.mentioned /\ message.guild = GUILD_ID
    \/ message.inChannel /\ (message.mentioned \/ RandomResponds(message, chance))

-----------------------------------------------------------------------------
(* The store harness: direct calls of the exported operations of
   database.js, one at a time, with the argument objects that
   storeUserMessage and storeAssistantMessage build.  A Discord message id
   names one message, so its text, author and guild are fixed. *)

UserMessageData(d, content, author, guild) ==
    [discordMessageId |-> d, content |-> content, authorId |-> author,
     authorName |-> author, channelId |-> "c1", guildId |-> guild,
     messageType |-> "user"]

AssistantId(d) == "assistant_" \o d

AssistantMessageData(d, content, guild) ==
    [discordMessageId |-> d, content |-> content, authorId |-> "assistant",
     authorName |-> "AM", channelId |-> "c1", guildId |-> guild,
     messageType |-> "assistant"]

StoreCatalog ==
    {UserMessageData("m1", <<"cat">>, "u1", "g1"),
     UserMessageData("m2", <<"cat">>, "u2", "g1"),
     UserMessageData("m3", <<"cat", "cat">>, "u1", "g2"),
     AssistantMessageData(AssistantId("m1"), <<"cat", "cat">>, "g1")}

StoreCall(md, ok) ==
    LET res == storeMessage(md, ok)
    IN /\ res.next <= MaxRows + 1
       /\ messages' = res.rows
       /\ nextId' = res.next
       /\ last' = [op |-> "storeMessage", args |-> md, ok |-> ok, ret |-> res.ret]
       /\ UNCHANGED <<backend, semantic, maxContext, subsystems, deciding, startup, userSpamTracking, calls, now, messageCache, pipe>>

StoreMessageCall ==
    \E md \in StoreCatalog, ok \in BOOLEAN : StoreCall(md, ok)

\* storeMessage with the backend failing at any of its statements.
StoreFaultCall ==
    \E md \in StoreCatalog, fault \in FaultPoints :
        LET res == storeMessageAt(md, fault)
        IN /\ res.next <= MaxRows + 1
           /\ messages' = res.rows
           /\ nextId' = res.next
           /\ last' = [op |-> "storeMessage", args |-> md,
                       ok |-> ~StoreFailed(md, fault), ret |-> res.ret]
           /\ UNCHANGED <<backend, semantic, maxContext, subsystems, deciding, startup, userSpamTracking, calls, now, messageCache, pipe>>

FindSimilarCall ==
    \E q \in Queries, g \in Guilds \cup {NULL}, a \in {"u1", NULL},
       n \in 1..2, ok \in BOOLEAN :
        \E res \in findSimilarMessages(q, g, a, n, ok) :
            /\ last' = [op |-> "findSimilarMessages", queryText |-> q, guildId |-> g,
                        authorId |-> a, limit |-> n, ok |-> ok, ret |-> res]
            /\ UNCHANGED <<backend, semantic, maxContext, subsystems, deciding, startup, userSpamTracking, calls, messages, nextId, now, messageCache, pipe>>

GetRecentCall ==
    \E g \in Guilds \cup {NULL}, a \in {"u1", NULL}, n \in 1..2, ok \in BOOLEAN :
        \E res \in getRecentMessages(g, a, n, ok) :
            /\ last' = [op |-> "getRecentMessages", guildId |-> g,
                        authorId |-> a, limit |-> n, ok |-> ok, ret |-> res]
            /\ UNCHANGED <<backend, semantic, maxContext, subsystems, deciding, startup, userSpamTracking, calls, messages, nextId, now, messageCache, pipe>>

CleanupCall ==
    \E days \in 0..1, ok \in BOOLEAN :
        LET res == cleanupOldMessages(days, ok)
        IN /\ messages' = res.rows
           /\ last' = [op |-> "cleanupOldMessages", daysOld |-> days, ok |-> ok,
                       ret |-> res.ret]
           /\ UNCHANGED <<backend, semantic, maxContext, subsystems, deciding, startup, userSpamTracking, calls, nextId, now, messageCache, pipe>>

\* A day passes.
TickDay ==
    /\ now < MaxClock * DayMs
    /\ now' = now + DayMs
    /\ last' = [op |-> "tick"]
    /\ UNCHANGED <<backend, semantic, maxContext, subsystems, deciding, startup, userSpamTracking, calls, messages, nextId, messageCache, pipe>>

\* The context harness: direct calls of getRelevantContext on a store filled
\* with storeMessage, one call at a time.
CtxCatalog ==
    {UserMessageData("c1", <<"cat">>, "u1", "g1"),
     UserMessageData("c2", <<"cat", "cat">>, "u1", "g1"),
     UserMessageData("c3", <<"dog">>, "u2", "g1")}

\* Every insert is of a new Discord message.
FreshId == <<"msg", nextId>>

CtxStoreCall ==
    \E md \in CtxCatalog :
        LET res == storeMessage([md EXCEPT !.discordMessageId = FreshId], TRUE)
        IN /\ res.next <= MAX_CONTEXT_MESSAGES + 2
           /\ messages' = res.rows
           /\ nextId' = res.next
           /\ now' = now + 1
           /\ last' = [op |-> "storeMessage",
                       args |-> [md EXCEPT !.discordMessageId = FreshId],
                       ok |-> TRUE, ret |-> res.ret]
           /\ UNCHANGED <<backend, semantic, maxContext, subsystems, deciding, startup, userSpamTracking, calls, messageCache, pipe>>

GetRelevantContextCall ==
    \E q \in Queries \cup {UndefinedInput}, u \in {"u1", NULL}, okS \in BOOLEAN, okR \in BOOLEAN :
        \E out \in getRelevantContext(q, "g1", u, okS, okR) :
            /\ Cardinality(DOMAIN out.cache) <= MaxCached
            /\ messageCache' = out.cache
            /\ last' = [op |-> "getRelevantContext", userInput |-> q, guildId |-> "g1",
                        userId |-> u, okS |-> okS, okR |-> okR, path |-> out.path,
                        similarAsked |-> out.similarAsked, similarLimit |-> out.similarLimit,
                        similar |-> out.similar,
                        recentAsked |-> out.recentAsked, recentLimit |-> out.recentLimit,
                        recent |-> out.recent,
                        ret |-> out.ret]
            /\ UNCHANGED <<backend, semantic, maxContext, subsystems, deciding, startup, userSpamTracking, calls, messages, nextId, now, pipe>>

\* Turns of two users and of the assistant in one guild; all match the query.
AuthorCatalog ==
    {UserMessageData("a1", <<"cat">>, "u1", "g1"),
     UserMessageData("a2", <<"cat", "cat">>, "u2", "g1"),
     AssistantMessageData(AssistantId("a1"), <<"cat", "dog">>, "g1")}

AuthorStoreCall ==
    \E md \in AuthorCatalog :
        LET res == storeMessage([md EXCEPT !.discordMessageId = FreshId], TRUE)
        IN /\ res.next <= MaxRows + 2
           /\ messages' = res.rows
           /\ nextId' = res.next
           /\ now' = now + 1
           /\ last' = [op |-> "storeMessage", author |-> md.authorId]
           /\ UNCHANGED <<backend, semantic, maxContext, subsystems, deciding, startup, userSpamTracking, calls, messageCache, pipe>>

\* generateAMResponse building the context for a message of author u:
\* getRelevantContext(userInput, guildId, authorId).
BuildContext ==
    \E q \in Queries, u \in {"u1", "u2"}, okS \in BOOLEAN, okR \in BOOLEAN :
        \E out \in getRelevantContext(q, "g1", u, okS, okR) :
            /\ Cardinality(DOMAIN out.cache) <= MaxCached
            /\ messageCache' = out.cache
            /\ last' = [op |-> "buildContext", userId |-> u, path |-> out.path,
                        ret |-> out.ret]
            /\ UNCHANGED <<backend, semantic, maxContext, subsystems, deciding, startup, userSpamTracking, calls, messages, nextId, now, pipe>>

\* getRelevantContext for the whole guild (no author given).
GetGuildContextCall ==
    \E q \in Queries, okS \in BOOLEAN, okR \in BOOLEAN :
        \E out \in getRelevantContext(q, "g1", NULL, okS, okR) :
            /\ messageCache' = out.cache
            /\ last' = [op |-> "getRelevantContext", userInput |-> q, guildId |-> "g1",
                        userId |-> NULL, okS |-> okS, okR |-> okR, path |-> out.path,
                        similarAsked |-> out.similarAsked, similarLimit |-> out.similarLimit,
                        similar |-> out.similar,
                        recentAsked |-> out.recentAsked, recentLimit |-> out.recentLimit,
                        recent |-> out.recent,
                        ret |-> out.ret]
            /\ UNCHANGED <<backend, semantic, maxContext, subsystems, deciding, startup, userSpamTracking, calls, messages, nextId, now, pipe>>

-----------------------------------------------------------------------------
(* getRelevantContext as the async function it is: an invocation gives up
   control at `await findSimilarMessages` and at `await getRecentMessages`,
   and other invocations and store writes run in between.  All invocations
   are for the same arguments ('cat', 'g1', null), hence the same cache key.
   With better-sqlite3 the queries are synchronous, so invocations overlap
   only on PostgreSQL. *)

CallIds == 1..MaxCalls

OverlapKey == CacheKey(<<"cat">>, "g1", NULL)

\* before: the lists returned for the key when the invocation started.
IdleCall == [pc |-> "idle", context |-> <<>>, before |-> {}, queried |-> FALSE,
             ret |-> <<>>]

NoCalls == [c \in CallIds |-> IdleCall]

Returned == {calls[c].ret : c \in {d \in CallIds : calls[d].pc = "done"}}

\* Lines 196-205: cache the context, return its slice.
CallReturn(c, context, queried) ==
    /\ messageCache' = CacheSet(messageCache, OverlapKey, context)
    /\ calls' = [calls EXCEPT ![c] = [@ EXCEPT !.pc = "done", !.context = context,
                                               !.queried = queried,
                                               !.ret = Slice(context)]]
    /\ last' = [op |-> "return", call |-> c, path |-> "miss"]

\* Lines 126-143: the cache check; a hit returns the cached list, a miss
\* issues the relevance query (or, without semantic search, the recency one).
CallStart(c) ==
    /\ calls[c].pc = "idle"
    /\ \A d \in CallIds : d < c => calls[d].pc # "idle"
    /\ IF OverlapKey \in DOMAIN messageCache
       THEN /\ calls' = [calls EXCEPT ![c] = [@ EXCEPT !.pc = "done",
                                                       !.before = Returned,
                                                       !.ret = messageCache[OverlapKey]]]
            /\ last' = [op |-> "return", call |-> c, path |-> "hit"]
       ELSE /\ calls' = [calls EXCEPT ![c] = [@ EXCEPT !.pc = IF semantic THEN "similar"
                                                                          ELSE "recent",
                                                       !.before = Returned]]
            /\ last' = [op |-> "start", call |-> c]
    /\ UNCHANGED <<backend, semantic, maxContext, subsystems, deciding, startup, userSpamTracking, messages, nextId, now,
                   messageCache, pipe>>

\* Lines 138-161: findSimilarMessages resolves.
SimilarResolves(c) ==
    /\ calls[c].pc = "similar"
    /\ \E ok \in BOOLEAN :
         \E sim \in findSimilarMessages(<<"cat">>, "g1", NULL, SimilarLimit, ok) :
            IF NeedRecent(SimilarEntries(sim))
            THEN /\ calls' = [calls EXCEPT ![c] = [@ EXCEPT !.pc = "recent",
                                                            !.context = SimilarEntries(sim),
                                                            !.queried = TRUE]]
                 /\ last' = [op |-> "similar", call |-> c]
                 /\ UNCHANGED messageCache
            ELSE CallReturn(c, SortContext(SimilarEntries(sim)), TRUE)
    /\ UNCHANGED <<backend, semantic, maxContext, subsystems, deciding, startup, userSpamTracking, messages, nextId, now, pipe>>

\* Lines 162-205: getRecentMessages resolves; merge, sort, cache, return.
RecentResolves(c) ==
    /\ calls[c].pc = "recent"
    /\ \E ok \in BOOLEAN :
         \E rec \in getRecentMessages("g1", NULL, RecentLimit(calls[c].context), ok) :
            CallReturn(c, SortContext(MergeRecent(calls[c].context, rec)), TRUE)
    /\ UNCHANGED <<backend, semantic, maxContext, subsystems, deciding, startup, userSpamTracking, messages, nextId, now, pipe>>

-----------------------------------------------------------------------------
(* The message pipeline: one messageCreate handler at a time, a step per
   await of the handler and of generateAMResponse. *)

MessageId(n) == "m" \o ToString(n)

Message(content, author, bot, self, mentioned, inChannel, hasReference) ==
    [id |-> NULL, content |-> content, author |-> author, guild |-> "g1",
     bot |-> bot, self |-> self, mentioned |-> mentioned,
     inChannel |-> inChannel, hasReference |-> hasReference,
     userInput |-> content, completion |-> "none", storeFailed |-> FALSE]

NoMessage == Message(<<>>, NULL, FALSE, FALSE, FALSE, FALSE, FALSE)

PipeCatalog ==
    {Message(<<"cat">>, "u1", FALSE, FALSE, TRUE, FALSE, FALSE),
     Message(<<"cat">>, "u1", FALSE, FALSE, TRUE, FALSE, TRUE),
     Message(<<"dog">>, "u2", FALSE, FALSE, FALSE, TRUE, FALSE),
     Message(<<"dog">>, "u2", FALSE, FALSE, FALSE, FALSE, FALSE),
     Message(<<"dog">>, "b1", TRUE, FALSE, TRUE, FALSE, FALSE),
     Message(<<"a">>, "AM", TRUE, TRUE, FALSE, TRUE, FALSE)}

\* config.prefix: process.env.BOT_PREFIX || '!'
PREFIX == "!"

\* message.content.startsWith(config.prefix)
StartsWithPrefix(content) == Len(content) > 0 /\ content[1] = PREFIX

UnknownCommand == <<"Unknown command. Use slash commands: /search, /info, ...">>
CommandOutput == <<"(output of the search, info or location command)">>

\* The legacy prefix commands: the switch on the command name; what
\* message.reply is called with.
CommandReply(content) ==
    IF Len(content) > 1 /\ content[2] \in {"search", "info", "location"}
    THEN CommandOutput
    ELSE UnknownCommand

\* Messages with an unknown prefix command: one mentions the bot, one is in
\* the home channel, one is neither.
PrefixCatalog ==
    {Message(<<PREFIX, "cat">>, "u1", FALSE, FALSE, TRUE, FALSE, FALSE),
     Message(<<PREFIX, "cat">>, "u1", FALSE, FALSE, FALSE, TRUE, FALSE),
     Message(<<PREFIX, "info">>, "u2", FALSE, FALSE, FALSE, FALSE, FALSE)}

\* The content of the message a reference points at.
RepliedContent == <<"dog">>

PipeIdle ==
    /\ pc = "idle"
    /\ cur = NoMessage
    /\ reply = <<>>
    /\ outbox = <<>>
    /\ lastResponseTime = 0
    /\ received = 0

HandlerEnd(message, decided, replied, failed) ==
    [op |-> "handlerEnd", id |-> message.id, self |-> message.self,
     bot |-> message.bot, decided |-> decided,
     replied |-> replied, failed |-> failed]

\* The handler from shouldProcessMessage through the legacy prefix commands
\* (which do not return) and Deciding; sent says whether the reply of the
\* command went out.
MessageCreateFrom(catalog) ==
    /\ pc = "idle"
    /\ received < MaxMessages
    /\ \E m \in catalog, chance \in BOOLEAN, sent \in BOOLEAN :
        LET message == [m EXCEPT !.id = MessageId(received + 1)]
            process == shouldProcessMessage(message)
        IN /\ outbox' =
                IF process /\ StartsWithPrefix(message.content) /\ sent
                THEN Append(outbox, [to |-> message.id,
                                     text |-> CommandReply(message.content)])
                ELSE outbox
           /\ sent \/ (process /\ StartsWithPrefix(message.content))
           /\ lastResponseTime' =
                IF process /\ RandomResponds(message, chance)
                THEN now ELSE lastResponseTime
           /\ IF process /\ ShouldRespond(message, chance)
              THEN /\ cur' = message
                   /\ pc' = IF message.hasReference THEN "fetch" ELSE "typing"
                   /\ last' = [op |-> "decided", id |-> message.id]
              ELSE /\ cur' = NoMessage
                   /\ pc' = "idle"
                   /\ last' = HandlerEnd(message, FALSE, FALSE, "none")
    /\ received' = received + 1
    /\ reply' = <<>>
    /\ UNCHANGED <<backend, semantic, maxContext, subsystems, deciding, startup, userSpamTracking, calls, messages, nextId, now, messageCache>>

MessageCreate == MessageCreateFrom(PipeCatalog)

\* messageCreate for a message that starts with the command prefix.
PrefixedMessageCreate == MessageCreateFrom(PrefixCatalog)

\* Messages of the bot itself (its replies come back as messageCreate
\* events), of another bot and of a user, plain and with the command prefix;
\* all in the home channel or mentioning the bot.
BotCatalog ==
    {Message(<<"a">>, "AM", TRUE, TRUE, FALSE, TRUE, FALSE),
     Message(<<PREFIX, "info">>, "AM", TRUE, TRUE, TRUE, FALSE, FALSE),
     Message(<<"dog">>, "b1", TRUE, FALSE, TRUE, FALSE, FALSE),
     Message(<<PREFIX, "cat">>, "b1", TRUE, FALSE, FALSE, TRUE, FALSE),
     Message(<<"cat">>, "u1", FALSE, FALSE, TRUE, FALSE, FALSE)}

BotMessageCreate == MessageCreateFrom(BotCatalog)

\* await message.channel.messages.fetch(...) inside its try/catch.
FetchReplied ==
    /\ pc = "fetch"
    /\ \E ok \in BOOLEAN :
        /\ cur' = IF ok
                  THEN [cur EXCEPT !.userInput = InResponseTo(RepliedContent, cur.userInput)]
                  ELSE cur
        /\ last' = [op |-> "fetch", ok |-> ok]
    /\ pc' = "typing"
    /\ UNCHANGED <<backend, semantic, maxContext, subsystems, deciding, startup, userSpamTracking, calls, messages, nextId, now, messageCache,
                   reply, outbox, lastResponseTime, received>>

\* await message.channel.sendTyping(): a rejection leaves the handler.
SendTyping ==
    /\ pc = "typing"
    /\ \E ok \in BOOLEAN :
        IF ok
        THEN /\ pc' = "context"
             /\ cur' = cur
             /\ last' = [op |-> "sendTyping", ok |-> TRUE]
        ELSE /\ pc' = "idle"
             /\ cur' = NoMessage
             /\ last' = HandlerEnd(cur, TRUE, FALSE, "sendTyping")
    /\ UNCHANGED <<backend, semantic, maxContext, subsystems, deciding, startup, userSpamTracking, calls, messages, nextId, now, messageCache,
                   reply, outbox, lastResponseTime, received>>

\* relevantContext.slice(-10)
HISTORY_ENTRIES == 10

SliceFirstEntries(context, n) == SubSeq(context, 1, Min(n, Len(context)))

\* Array.prototype.slice(-n): the last n elements, all of them when there
\* are fewer.
SliceLastEntries(context, n) ==
    SubSeq(context, Max(1, Len(context) - n + 1), Len(context))

\* One line of contextText: `${speaker}: ${msg.content}${similarity}\n`.
HistoryLine(msg) ==
    [speaker   |-> IF msg.type = "assistant" THEN "AM" ELSE msg.author,
     content   |-> msg.content,
     relevance |-> IF HasSimilarity(msg) THEN <<msg.similarity>> ELSE <<>>]

\* contextText as the list of its lines.
ContextText(relevantContext) ==
    LET shown == SliceLastEntries(relevantContext, HISTORY_ENTRIES)
    IN [i \in DOMAIN shown |-> HistoryLine(shown[i])]

\* The text of the i-th turn of a window: i words.
TurnText(i) == [j \in 1..i |-> "cat"]

\* A window as getRelevantContext returns it: n entries, the first scored
\* of them with a similarity, in descending order, then the ones without,
\* the most recent first; the entry at assistantAt is an assistant turn.
Window(n, scored, assistantAt) ==
    [i \in 1..n |->
        LET type == IF i = assistantAt THEN "assistant" ELSE "user"
            author == IF i = assistantAt THEN "AM" ELSE "u1"
        IN IF i <= scored
           THEN [content |-> TurnText(i), author |-> author, type |-> type,
                 similarity |-> Similarity(scored - i + 1), timestamp |-> n - i]
           ELSE [content |-> TurnText(i), author |-> author, type |-> type,
                 timestamp |-> n - i, isRecent |-> TRUE]]

Windows ==
    {Window(n, scored, assistantAt) :
        n \in 0..MaxWindow, scored \in 0..MaxWindow, assistantAt \in 0..MaxWindow}

\* generateAMResponse building contextText from the window drawn at the start.
BuildHistory ==
    /\ last.op = "window"
    /\ last' = [op |-> "history", window |-> last.window,
                ret |-> ContextText(last.window)]
    /\ UNCHANGED <<backend, semantic, maxContext, subsystems, deciding, startup, userSpamTracking, calls, messages, nextId, now,
                   messageCache, pipe>>

\* generateAMResponse up to axios.post: the context lookup.
Context ==
    /\ pc = "context"
    /\ IF semantic
       THEN \E okS \in BOOLEAN, okR \in BOOLEAN :
              \E out \in getRelevantContext(cur.userInput, cur.guild, cur.author, okS, okR) :
                  /\ messageCache' = out.cache
                  /\ last' = [op |-> "context", path |-> out.path]
       ELSE /\ messageCache' = messageCache
            /\ last' = [op |-> "context", path |-> "none"]
    /\ pc' = "completion"
    /\ UNCHANGED <<backend, semantic, maxContext, subsystems, deciding, startup, userSpamTracking, calls, messages, nextId, now,
                   cur, reply, outbox, lastResponseTime, received>>

\* if (isSemanticMode && discordMessageId && authorId && authorName)
Recording == semantic /\ cur.id # NULL /\ cur.author # NULL

\* await axios.post(...), the cleanup, and the catch block.
Completion ==
    /\ pc = "completion"
    /\ \E outcome \in CompletionOutcomes :
        /\ cur' = [cur EXCEPT !.completion = outcome.kind]
        /\ IF Throws(outcome)
           THEN /\ reply' = Apology
                /\ pc' = "reply"
           ELSE /\ reply' = CleanReply(RawReply(outcome))
                /\ pc' = IF Recording THEN "storeUser" ELSE "reply"
        /\ last' = [op |-> "completion", kind |-> outcome.kind,
                    empty |-> RawReply(outcome) = <<>>]
    /\ UNCHANGED <<backend, semantic, maxContext, subsystems, deciding, startup, userSpamTracking, calls, messages, nextId, now, messageCache,
                   outbox, lastResponseTime, received>>

\* generateAMResponse at its recording step with a reply for the message
\* discordMessageId; the same message may come again.
RecordExchange ==
    /\ pc = "idle"
    /\ received < MaxRecordings
    /\ \E n \in 1..2, text \in {<<"a">>, Filler} :
        /\ cur' = [Message(<<"cat">>, "u1", FALSE, FALSE, TRUE, FALSE, FALSE)
                      EXCEPT !.id = MessageId(n)]
        /\ reply' = text
        /\ last' = [op |-> "recording", id |-> MessageId(n)]
    /\ pc' = "storeUser"
    /\ received' = received + 1
    /\ UNCHANGED <<backend, semantic, maxContext, subsystems, deciding, startup, userSpamTracking, calls, messages, nextId, now, messageCache,
                   outbox, lastResponseTime>>

\* await semanticContextManager.storeUserMessage({...})
StoreUser ==
    /\ pc = "storeUser"
    /\ \E ok \in BOOLEAN :
        LET res == storeMessage(
                UserMessageData(cur.id, cur.userInput, cur.author, cur.guild), ok)
        IN /\ messages' = res.rows
           /\ nextId' = res.next
           /\ cur' = [cur EXCEPT !.storeFailed = @ \/ ~Truthy(res.ret)]
           /\ last' = [op |-> "storeUserMessage", ret |-> res.ret]
    /\ pc' = "storeAssistant"
    /\ UNCHANGED <<backend, semantic, maxContext, subsystems, deciding, startup, userSpamTracking, calls, now, messageCache,
                   reply, outbox, lastResponseTime, received>>

\* await semanticContextManager.storeAssistantMessage({...}); return reply
StoreAssistant ==
    /\ pc = "storeAssistant"
    /\ \E ok \in BOOLEAN :
        LET res == storeMessage(
                AssistantMessageData(AssistantId(cur.id), reply, cur.guild), ok)
        IN /\ messages' = res.rows
           /\ nextId' = res.next
           /\ cur' = [cur EXCEPT !.storeFailed = @ \/ ~Truthy(res.ret)]
           /\ last' = [op |-> "storeAssistantMessage", ret |-> res.ret]
    /\ pc' = "reply"
    /\ UNCHANGED <<backend, semantic, maxContext, subsystems, deciding, startup, userSpamTracking, calls, now, messageCache,
                   reply, outbox, lastResponseTime, received>>

\* await message.reply(reply): the end of the handler.
Reply ==
    /\ pc = "reply"
    /\ \E ok \in BOOLEAN :
        /\ outbox' = IF ok THEN Append(outbox, [to |-> cur.id, text |-> reply])
                     ELSE outbox
        /\ last' = HandlerEnd(cur, TRUE, ok, IF ok THEN "none" ELSE "reply")
    /\ pc' = "idle"
    /\ cur' = NoMessage
    /\ reply' = <<>>
    /\ UNCHANGED <<backend, semantic, maxContext, subsystems, deciding, startup, userSpamTracking, calls, messages, nextId, now, messageCache,
                   lastResponseTime, received>>

\* Time passes, a cooldown period at a step.
Wait ==
    /\ now < MaxWait * CooldownMs
    /\ now' = now + CooldownMs
    /\ last' = [op |-> "wait"]
    /\ UNCHANGED <<backend, semantic, maxContext, subsystems, deciding, startup, userSpamTracking, calls, messages, nextId, messageCache, pipe>>

-----------------------------------------------------------------------------
(* The Deciding step on its own.  From `const currentTime = Date.now()` to
   the end of the if/else it is one synchronous block without an await, so
   the Deciding steps of concurrent handlers happen one after another, in
   any order and at any times; what the handlers do before and after does
   not touch lastResponseTime. *)

DecidingIdle ==
    /\ botjs = "part_003"
    /\ enableMentions = FALSE
    /\ randomAt = {}
    /\ friendlyFire = FALSE

\* initializeSystem has returned; isSemanticMode is what it left.
StartupDone ==
    startup = [pc |-> "done", enableDatabase |-> TRUE, enableSemanticSearch |-> TRUE,
               dbConnected |-> semantic, schemaInitialized |-> semantic,
               contextInitialized |-> semantic]

\* const userSpamTracking = new Map()
SpamIdle == userSpamTracking = <<>>

\* The handlers of the messages of one user: where each stands and the
\* message it handles.
SpamHandlerIds == 1..MaxSpamHandlers
IdleHandler == [pc |-> "idle", channelId |-> "c1", linkCount |-> 0]
NoSpamHandlers == [h \in SpamHandlerIds |-> IdleHandler]

\* `songs[0]` of an empty array, and `!song` in play().
UndefinedSong == 0

\* MusicManager of one guild after construction: `this.queues = new Map()`.
\* queue: the guild has an entry in `this.queues`; songs, loop, volume: the
\* entry's fields; player: "none" before createAudioPlayer, then "idle" or
\* "playing"; current: the song of the resource being played; opening: the
\* songs of the play() calls that await play.stream; timers: pending
\* 30 s timeouts of play(); nextSong: the next song handlePlay resolves;
\* started: the songs handed to player.play so far.
NoMusic ==
    [queue |-> FALSE, songs |-> <<>>, loop |-> "none", volume |-> 5,
     player |-> "none", current |-> UndefinedSong, opening |-> <<>>,
     timers |-> 0, nextSong |-> 1, started |-> {}]

\* The users of the birthday commands.
BirthdayUsers == {"u1", "u2"}

\* No row of the birthdays table for a user.
NoBirthday == [day |-> 0, month |-> 0, year |-> 0]

\* The birthdays table is empty and ENABLE_DATABASE is set.
NoBirthdays == [enabled |-> TRUE, rows |-> [u \in BirthdayUsers |-> NoBirthday]]

SubsystemsIdle ==
    /\ spamHandlers = NoSpamHandlers
    /\ music = NoMusic
    /\ birthdays = NoBirthdays

\* Date.now() in the model: the process starts more than a cooldown after
\* the epoch and the clock advances in half cooldowns.
TickMs == CooldownMs \div 2
StartMs == CooldownMs + TickMs

Authors ==
    {[name |-> "u1", bot |-> FALSE, self |-> FALSE],
     [name |-> "b1", bot |-> TRUE, self |-> FALSE],
     [name |-> "AM", bot |-> TRUE, self |-> TRUE]}

Deciding(message, chance) ==
    IF botjs = "part_003"
    THEN ShouldRespond(message, chance)
    ELSE ShouldRespondInGuild(message, chance)

\* One messageCreate handler from shouldProcessMessage through Deciding.
Decide ==
    \E a \in Authors, mentioned \in BOOLEAN, inChannel \in BOOLEAN,
       g \in Guilds, chance \in BOOLEAN :
        LET message == [Message(<<"cat">>, a.name, a.bot, a.self,
                                mentioned, inChannel, FALSE) EXCEPT !.guild = g]
            process == shouldProcessMessage(message)
            responds == process /\ Deciding(message, chance)
        IN /\ lastResponseTime' =
                IF process /\ RandomResponds(message, chance)
                THEN now ELSE lastResponseTime
           /\ randomAt' = IF responds /\ ~mentioned
                          THEN randomAt \cup {now} ELSE randomAt
           /\ last' = [op |-> "deciding", reached |-> process,
                       mentioned |-> mentioned, inChannel |-> inChannel,
                       guild |-> g, chance |-> chance, shouldRespond |-> responds]
           /\ UNCHANGED <<backend, semantic, maxContext, subsystems, startup, userSpamTracking, calls, messages, nextId, now,
                          messageCache, pc, cur, reply, outbox, received,
                          botjs, enableMentions, friendlyFire>>

Tick ==
    /\ now < StartMs + MaxTicks * TickMs
    /\ now' = now + TickMs
    /\ last' = [op |-> "tick"]
    /\ UNCHANGED <<backend, semantic, maxContext, subsystems, deciding, startup, userSpamTracking, calls, messages, nextId, messageCache, pipe>>

-----------------------------------------------------------------------------
(* calculateTextSimilarity.  A text is a sequence of symbols, a word piece
   or a blank; adjacent word pieces form one word.  A token is the sequence
   of its word pieces, the empty token is <<>>.  The quotient the function
   returns is kept as a fraction. *)

\* String.prototype.toLowerCase
ToLowerCase(text) ==
    [i \in DOMAIN text |-> IF text[i] = "Cat" THEN "cat" ELSE text[i]]

RECURSIVE SkipSpaces(_)
SkipSpaces(text) ==
    IF text # <<>> /\ IsSpace(Head(text)) THEN SkipSpaces(Tail(text)) ELSE text

\* split(/\s+/): the pieces between the runs of white space; a run at the
\* start or the end leaves an empty token there, and '' gives [''].
RECURSIVE SplitFrom(_, _)
SplitFrom(text, token) ==
    IF text = <<>> THEN <<token>>
    ELSE IF IsSpace(Head(text))
         THEN <<token>> \o SplitFrom(SkipSpaces(text), <<>>)
         ELSE SplitFrom(Tail(text), Append(token, Head(text)))

SplitWhitespace(text) == SplitFrom(text, <<>>)

Abs(n) == IF n < 0 THEN 0 - n ELSE n

Fraction(num, den) == [num |-> num, den |-> den]

\* intersection.size / union.size
JaccardSimilarity(words1, words2) ==
    Fraction(Cardinality(Range(words1) \cap Range(words2)),
             Cardinality(Range(words1) \cup Range(words2)))

\* Variant: the length similarity of the token sets, not of the word lists.
LengthSimilarityOfSets(words1, words2) ==
    LET lengthDiff == Abs(Cardinality(Range(words1)) - Cardinality(Range(words2)))
        maxLength == Max(Cardinality(Range(words1)), Cardinality(Range(words2)))
    IN IF maxLength = 0 THEN Fraction(1, 1)
       ELSE Fraction(Max(0, maxLength - lengthDiff), maxLength)

\* maxLength === 0 ? 1 : Math.max(0, 1 - lengthDiff / maxLength)
LengthSimilarity(words1, words2) ==
    LET lengthDiff == Abs(Len(words1) - Len(words2))
        maxLength == Max(Len(words1), Len(words2))
    IN IF maxLength = 0 THEN Fraction(1, 1)
       ELSE Fraction(Max(0, maxLength - lengthDiff), maxLength)

\* (jaccardSimilarity + lengthSimilarity) / 2
calculateTextSimilarity(text1, text2) ==
    LET words1 == SplitWhitespace(ToLowerCase(text1))
        words2 == SplitWhitespace(ToLowerCase(text2))
        j == JaccardSimilarity(words1, words2)
        l == LengthSimilarity(words1, words2)
    IN Fraction(j.num * l.den + l.num * j.den, 2 * j.den * l.den)

SimTexts == UNION {[1..n -> {"cat", "Cat", "dog", " "}] : n \in 0..MaxSimLen}

\* The function applied to the pair of texts drawn at the start.
CalculateTextSimilarityCall ==
    /\ last.op = "texts"
    /\ last' = [op |-> "calculateTextSimilarity",
                text1 |-> last.text1, text2 |-> last.text2,
                ret |-> calculateTextSimilarity(last.text1, last.text2)]
    /\ UNCHANGED <<backend, semantic, maxContext, subsystems, deciding, startup, userSpamTracking, calls, messages, nextId, now,
                   messageCache, pipe>>

-----------------------------------------------------------------------------
Init ==
    /\ backend \in Backends
    /\ semantic = TRUE
    /\ maxContext = 3
    /\ messages = {}
    /\ nextId = 1
    /\ now = 0
    /\ messageCache = <<>>
    /\ calls = NoCalls
    /\ last = [op |-> "init"]
    /\ PipeIdle
    /\ DecidingIdle
    /\ StartupDone
    /\ SpamIdle
    /\ SubsystemsIdle

Next ==
    \/ StoreMessageCall
    \/ FindSimilarCall
    \/ GetRecentCall
    \/ CleanupCall
    \/ TickDay

Spec == Init /\ [][Next]_vars

\* The Message Store with failures at every backend statement.
FaultNext ==
    \/ StoreFaultCall
    \/ FindSimilarCall
    \/ GetRecentCall
    \/ CleanupCall
    \/ TickDay

FaultSpec == Init /\ [][FaultNext]_vars

\* calculateTextSimilarity on every pair of texts of up to MaxSimLen symbols.
SimilarityInit ==
    /\ backend = "legacy"
    /\ semantic = TRUE
    /\ maxContext = 3
    /\ messages = {}
    /\ nextId = 1
    /\ now = 0
    /\ messageCache = <<>>
    /\ calls = NoCalls
    /\ last \in {[op |-> "texts", text1 |-> text1, text2 |-> text2] :
                    text1 \in SimTexts, text2 \in SimTexts}
    /\ PipeIdle
    /\ DecidingIdle
    /\ StartupDone
    /\ SpamIdle
    /\ SubsystemsIdle

SimilaritySpec == SimilarityInit /\ [][CalculateTextSimilarityCall]_vars

CtxInit ==
    /\ backend \in {"sqlite", "postgres"}
    /\ semantic = TRUE
    /\ maxContext = 3
    /\ messages = {}
    /\ nextId = 1
    /\ now = 0
    /\ messageCache = <<>>
    /\ calls = NoCalls
    /\ last = [op |-> "init"]
    /\ PipeIdle
    /\ DecidingIdle
    /\ StartupDone
    /\ SpamIdle
    /\ SubsystemsIdle

CtxNext ==
    \/ CtxStoreCall
    \/ GetRelevantContextCall

CtxSpec == CtxInit /\ [][CtxNext]_vars

\* The context harness under MAX_CONTEXT_MESSAGES=4, where the relevance
\* search may return two rows.
AuthorNext ==
    \/ AuthorStoreCall
    \/ BuildContext

AuthorSpec == CtxInit /\ [][AuthorNext]_vars

HistoryInit ==
    /\ backend \in {"sqlite", "postgres"}
    /\ semantic = TRUE
    /\ maxContext = MaxWindow
    /\ messages = {}
    /\ nextId = 1
    /\ now = 0
    /\ messageCache = <<>>
    /\ calls = NoCalls
    /\ last \in {[op |-> "window", window |-> w] : w \in Windows}
    /\ PipeIdle
    /\ DecidingIdle
    /\ StartupDone
    /\ SpamIdle
    /\ SubsystemsIdle

HistorySpec == HistoryInit /\ [][BuildHistory]_vars

Ctx4Init ==
    /\ backend \in {"sqlite", "postgres"}
    /\ semantic = TRUE
    /\ maxContext = 4
    /\ messages = {}
    /\ nextId = 1
    /\ now = 0
    /\ messageCache = <<>>
    /\ calls = NoCalls
    /\ last = [op |-> "init"]
    /\ PipeIdle
    /\ DecidingIdle
    /\ StartupDone
    /\ SpamIdle
    /\ SubsystemsIdle

Ctx4Next ==
    \/ CtxStoreCall
    \/ GetGuildContextCall

Ctx4Spec == Ctx4Init /\ [][Ctx4Next]_vars

\* Overlapping getRelevantContext invocations on PostgreSQL.
OverlapInit ==
    /\ backend = "postgres"
    /\ semantic = TRUE
    /\ maxContext = 3
    /\ messages = {}
    /\ nextId = 1
    /\ now = 0
    /\ messageCache = <<>>
    /\ calls = NoCalls
    /\ last = [op |-> "init"]
    /\ PipeIdle
    /\ DecidingIdle
    /\ StartupDone
    /\ SpamIdle
    /\ SubsystemsIdle

OverlapNext ==
    \/ CtxStoreCall
    \/ \E c \in CallIds : CallStart(c)
    \/ \E c \in CallIds : SimilarResolves(c)
    \/ \E c \in CallIds : RecentResolves(c)

OverlapSpec == OverlapInit /\ [][OverlapNext]_vars

\* The recording step of generateAMResponse on every database module.
RecordInit ==
    /\ backend \in Backends
    /\ semantic = TRUE
    /\ maxContext = 3
    /\ messages = {}
    /\ nextId = 1
    /\ now = 0
    /\ messageCache = <<>>
    /\ calls = NoCalls
    /\ last = [op |-> "init"]
    /\ PipeIdle
    /\ DecidingIdle
    /\ StartupDone
    /\ SpamIdle
    /\ SubsystemsIdle

RecordNext ==
    \/ RecordExchange
    \/ StoreUser
    \/ StoreAssistant
    \/ Reply

RecordSpec == RecordInit /\ [][RecordNext]_vars

\* The cleanup of generateAMResponse on its own, applied to the texts of up
\* to MaxCleanLen symbols.
CleanTexts == UNION {[1..n -> ReplyAlphabet] : n \in 0..MaxCleanLen}

Clean ==
    /\ last.op = "init"
    /\ \E raw \in CleanTexts :
          last' = [op |-> "clean", raw |-> raw, ret |-> CleanReply(raw)]
    /\ UNCHANGED <<backend, semantic, maxContext, subsystems, deciding, startup, userSpamTracking, calls, messages, nextId, now,
                   messageCache, pipe>>

\* The Deciding steps of either bot.js.
DecideInit ==
    /\ backend = "postgres"
    /\ semantic = TRUE
    /\ maxContext = 3
    /\ messages = {}
    /\ nextId = 1
    /\ now = StartMs
    /\ messageCache = <<>>
    /\ calls = NoCalls
    /\ last = [op |-> "init"]
    /\ PipeIdle
    /\ botjs \in {"part_003", "bot.js"}
    /\ enableMentions \in BOOLEAN
    /\ randomAt = {}
    /\ friendlyFire = FALSE
    /\ StartupDone
    /\ SpamIdle
    /\ SubsystemsIdle

DecideNext ==
    \/ Decide
    \/ Tick

DecideSpec == DecideInit /\ [][DecideNext]_vars

(* Spam detection: detectImageSpam, detectLinkSpam and handleSpamDetection.
   A tracking entry is [channelId, count, timestamp]. *)

SPAM_IMAGE_THRESHOLD == 4
SPAM_LINK_THRESHOLD == 4
SPAM_WINDOW_MS == 30000

\* What a message carries: image attachments and links.
ImageCounts == {0, 2}
LinkCounts == {0, 2, SPAM_LINK_THRESHOLD}
Channels == {"c1", "c2"}

NoTracking == [images |-> <<>>, links |-> <<>>]

\* userSpamTracking.get(userId), after the set of a fresh record
TrackingOf(tracked, userId) ==
    IF userId \in DOMAIN tracked THEN tracked[userId] ELSE NoTracking

\* userSpamTracking.set(userId, tracking)
TrackingSet(tracked, userId, tracking) ==
    [u \in DOMAIN tracked \cup {userId} |->
        IF u = userId THEN tracking ELSE tracked[u]]

\* userSpamTracking.delete(userId)
TrackingDelete(tracked, userId) ==
    [u \in DOMAIN tracked \ {userId} |-> tracked[u]]

\* The entries with none filtered out.
KeepEntries(entries, t) == entries

\* entries.filter(entry => now - entry.timestamp < SPAM_WINDOW_MS)
SlideWindow(entries, t) ==
    LET InWindow(entry) == t - entry.timestamp < SPAM_WINDOW_MS
    IN SelectSeq(entries, InWindow)

\* entries.reduce((sum, entry) => sum + entry.count, 0)
RECURSIVE TotalCount(_)
TotalCount(entries) ==
    IF entries = <<>> THEN 0 ELSE Head(entries).count + TotalCount(Tail(entries))

\* new Set(entries.map(entry => entry.channelId))
UniqueChannels(entries) == {entries[i].channelId : i \in DOMAIN entries}

\* The guards of handleSpamDetection without the test for moderators.
BanAttemptedUnlessAdmin(member, botCanBan) ==
    /\ member.present
    /\ botCanBan
    /\ ~member.administrator

\* handleSpamDetection up to member.ban: whether the ban is attempted.
BanAttempted(member, botCanBan) ==
    /\ member.present
    /\ botCanBan
    /\ ~(member.administrator \/ member.moderateMembers)

\* detectImageSpam: the tracking it leaves, whether it called
\* handleSpamDetection, and the tracking while that call was awaited.
detectImageSpam(tracked, userId, channelId, imageCount, t) ==
    IF imageCount = 0 THEN [tracked |-> tracked, called |-> FALSE, kept |-> tracked]
    ELSE LET tracking == TrackingOf(tracked, userId)
             images == Append(SlideWindow(tracking.images, t),
                              [channelId |-> channelId, count |-> imageCount,
                               timestamp |-> t])
             kept == TrackingSet(tracked, userId, [tracking EXCEPT !.images = images])
         IN IF /\ TotalCount(images) >= SPAM_IMAGE_THRESHOLD
               /\ Cardinality(UniqueChannels(images)) > 1
            THEN [tracked |-> TrackingDelete(kept, userId), called |-> TRUE, kept |-> kept]
            ELSE [tracked |-> kept, called |-> FALSE, kept |-> kept]

\* detectLinkSpam, with its two triggers.
detectLinkSpam(tracked, userId, channelId, linkCount, t) ==
    IF linkCount = 0 THEN [tracked |-> tracked, called |-> FALSE, kept |-> tracked]
    ELSE LET tracking == TrackingOf(tracked, userId)
             links == Append(SlideWindow(tracking.links, t),
                             [channelId |-> channelId, count |-> linkCount,
                              timestamp |-> t])
             kept == TrackingSet(tracked, userId, [tracking EXCEPT !.links = links])
         IN IF linkCount >= SPAM_LINK_THRESHOLD
            THEN [tracked |-> TrackingDelete(kept, userId), called |-> TRUE, kept |-> kept]
            ELSE IF /\ TotalCount(links) >= SPAM_LINK_THRESHOLD
                    /\ Cardinality(UniqueChannels(links)) > 1
                 THEN [tracked |-> TrackingDelete(kept, userId), called |-> TRUE, kept |-> kept]
                 ELSE [tracked |-> kept, called |-> FALSE, kept |-> kept]

\* message.member and its permissions; null when the member is not cached.
Members ==
    [id : {"u1"}, present : BOOLEAN, administrator : BOOLEAN,
     moderateMembers : BOOLEAN]

\* The spam detection of the messageCreate handler on a guild message of a
\* user: detectImageSpam, then detectLinkSpam, each with the call of
\* handleSpamDetection it may make.
SpamOutcome(member, botCanBan, channelId, imageCount, linkCount) ==
    LET image == detectImageSpam(userSpamTracking, member.id, channelId,
                                 imageCount, now)
        link == detectLinkSpam(image.tracked, member.id, channelId,
                               linkCount, now)
        handled == (IF image.called THEN 1 ELSE 0) + (IF link.called THEN 1 ELSE 0)
    IN [tracked |-> link.tracked, handled |-> handled,
        bans |-> IF BanAttempted(member, botCanBan) THEN handled ELSE 0,
        imageSpam |-> image.called, linkSpam |-> link.called]

\* No more than MaxTracked entries of a kind are tracked for a user.
WithinMaxTracked(tracked) ==
    \A u \in DOMAIN tracked :
        /\ Len(tracked[u].images) <= MaxTracked
        /\ Len(tracked[u].links) <= MaxTracked

\* The spam detection on a message of a member with any permissions.
SpamDetection ==
    \E member \in Members, botCanBan \in BOOLEAN, channelId \in Channels,
       imageCount \in ImageCounts, linkCount \in LinkCounts :
        LET out == SpamOutcome(member, botCanBan, channelId, imageCount, linkCount)
        IN /\ WithinMaxTracked(out.tracked)
           /\ userSpamTracking' = out.tracked
           /\ last' = [op |-> "spamDetection", member |-> member,
                       botCanBan |-> botCanBan, handled |-> out.handled,
                       bans |-> out.bans]
           /\ UNCHANGED <<backend, semantic, maxContext, subsystems, deciding, startup, calls,
                          messages, nextId, now, messageCache, pipe>>

\* A member without moderation permissions, in a guild where the bot may ban.
OrdinaryMember ==
    [id |-> "u1", present |-> TRUE, administrator |-> FALSE,
     moderateMembers |-> FALSE]

\* The spam detection on a message of an ordinary member, with what was
\* tracked before it and what the message holds.
SpamEvaluation ==
    \E channelId \in Channels, imageCount \in ImageCounts, linkCount \in LinkCounts :
        LET out == SpamOutcome(OrdinaryMember, TRUE, channelId, imageCount, linkCount)
        IN /\ WithinMaxTracked(out.tracked)
           /\ userSpamTracking' = out.tracked
           /\ last' = [op |-> "spamDetection", member |-> OrdinaryMember,
                       botCanBan |-> TRUE, handled |-> out.handled,
                       bans |-> out.bans,
                       before |-> TrackingOf(userSpamTracking, OrdinaryMember.id),
                       channelId |-> channelId, imageCount |-> imageCount,
                       linkCount |-> linkCount, at |-> now,
                       imageSpam |-> out.imageSpam, linkSpam |-> out.linkSpam]
           /\ UNCHANGED <<backend, semantic, maxContext, subsystems, deciding, startup, calls,
                          messages, nextId, now, messageCache, pipe>>

\* The setInterval callback of the ready handler: the entries out of the
\* window are dropped, a user left with none is forgotten.
PurgeSpamTracking ==
    /\ userSpamTracking # <<>>
    /\ LET slid == [u \in DOMAIN userSpamTracking |->
                       [images |-> SlideWindow(userSpamTracking[u].images, now),
                        links  |-> SlideWindow(userSpamTracking[u].links, now)]]
       IN userSpamTracking' =
            [u \in {v \in DOMAIN slid : slid[v] # NoTracking} |-> slid[u]]
    /\ last' = [op |-> "purge"]
    /\ UNCHANGED <<backend, semantic, maxContext, subsystems, deciding, startup, calls,
                   messages, nextId, now, messageCache, pipe>>

\* A spam window and a third pass: what was tracked before is out of the
\* window afterwards.
SpamTick ==
    /\ now < MaxClock * SPAM_WINDOW_MS
    /\ now' = now + 4 * (SPAM_WINDOW_MS \div 3)
    /\ last' = [op |-> "tick"]
    /\ UNCHANGED <<backend, semantic, maxContext, subsystems, deciding, startup, userSpamTracking, calls,
                   messages, nextId, messageCache, pipe>>

(* The same detection one await at a time: messageCreate handlers of
   several messages of one ordinary member run interleaved.  A handler is
   suspended only while handleSpamDetection awaits the notification and
   the ban; userSpamTracking.delete(userId) runs when that call returns. *)

InRun(handler) == handler.pc \in {"imageRun", "linkRun"}

\* detectLinkSpam up to its call of handleSpamDetection or to its end.
LinkStep(h, tracked, channelId, linkCount) ==
    LET link == detectLinkSpam(tracked, OrdinaryMember.id, channelId, linkCount, now)
    IN /\ userSpamTracking' = IF link.called THEN link.kept ELSE link.tracked
       /\ spamHandlers' = [spamHandlers EXCEPT ![h] =
              [pc |-> IF link.called THEN "linkRun" ELSE "done",
               channelId |-> channelId, linkCount |-> linkCount]]

\* A message arrives: detectImageSpam up to its call of handleSpamDetection,
\* or through detectLinkSpam when it makes none.
SpamArrive(h) ==
    /\ spamHandlers[h].pc = "idle"
    /\ \A g \in SpamHandlerIds : g < h => spamHandlers[g].pc # "idle"
    /\ \E channelId \in Channels, imageCount \in ImageCounts, linkCount \in LinkCounts :
        LET image == detectImageSpam(userSpamTracking, OrdinaryMember.id, channelId,
                                     imageCount, now)
        IN /\ IF image.called
              THEN /\ userSpamTracking' = image.kept
                   /\ spamHandlers' = [spamHandlers EXCEPT ![h] =
                          [pc |-> "imageRun", channelId |-> channelId,
                           linkCount |-> linkCount]]
              ELSE LinkStep(h, image.tracked, channelId, linkCount)
           /\ last' = [op |-> "spamArrive", handler |-> h, linkCount |-> linkCount,
                       others |-> Cardinality({g \in SpamHandlerIds :
                                                 InRun(spamHandlers[g])})]
    /\ WithinMaxTracked(userSpamTracking')
    /\ UNCHANGED <<backend, semantic, maxContext, deciding, startup, calls,
                   messages, nextId, now, messageCache, pipe, music, birthdays>>

\* handleSpamDetection called by detectImageSpam returns: the delete, then
\* detectLinkSpam.
ImageRunReturns(h) ==
    /\ spamHandlers[h].pc = "imageRun"
    /\ LinkStep(h, TrackingDelete(userSpamTracking, OrdinaryMember.id),
                spamHandlers[h].channelId, spamHandlers[h].linkCount)
    /\ WithinMaxTracked(userSpamTracking')
    /\ last' = [op |-> "imageRunReturns", handler |-> h]
    /\ UNCHANGED <<backend, semantic, maxContext, deciding, startup, calls,
                   messages, nextId, now, messageCache, pipe, music, birthdays>>

\* handleSpamDetection called by detectLinkSpam returns: the delete.
LinkRunReturns(h) ==
    /\ spamHandlers[h].pc = "linkRun"
    /\ userSpamTracking' = TrackingDelete(userSpamTracking, OrdinaryMember.id)
    /\ spamHandlers' = [spamHandlers EXCEPT ![h].pc = "done"]
    /\ last' = [op |-> "linkRunReturns", handler |-> h]
    /\ UNCHANGED <<backend, semantic, maxContext, deciding, startup, calls,
                   messages, nextId, now, messageCache, pipe, music, birthdays>>

SpamRaceNext ==
    \/ \E h \in SpamHandlerIds : SpamArrive(h)
    \/ \E h \in SpamHandlerIds : ImageRunReturns(h)
    \/ \E h \in SpamHandlerIds : LinkRunReturns(h)

SpamNext ==
    \/ SpamDetection
    \/ SpamTick

SpamWindowNext ==
    \/ SpamEvaluation
    \/ PurgeSpamTracking
    \/ SpamTick

SpamInit ==
    /\ backend = "postgres"
    /\ semantic = TRUE
    /\ maxContext = 3
    /\ messages = {}
    /\ nextId = 1
    /\ now = 0
    /\ messageCache = <<>>
    /\ calls = NoCalls
    /\ last = [op |-> "init"]
    /\ PipeIdle
    /\ DecidingIdle
    /\ StartupDone
    /\ SpamIdle
    /\ SubsystemsIdle

SpamSpec == SpamInit /\ [][SpamNext]_vars

SpamWindowSpec == SpamInit /\ [][SpamWindowNext]_vars

SpamRaceSpec == SpamInit /\ [][SpamRaceNext]_vars

(***************************************************************************)
(* Music queue of one guild (src/music-manager.js).                        *)
(***************************************************************************)

LoopModes == {"none", "song", "queue"}

\* Values of the /volume option; 101 is out of range.
Volumes == {50, 101}

\* `songs[0]`.
HeadOf(songs) == IF songs = <<>> THEN UndefinedSong ELSE Head(songs)

\* `songs.shift()`.
Shift(songs) == IF songs = <<>> THEN <<>> ELSE Tail(songs)

\* The sequence without its element at position i.
WithoutAt(s, i) == SubSeq(s, 1, i - 1) \o SubSeq(s, i + 1, Len(s))

\* play(guildId, song) up to its first await: without a song the 30 s
\* timeout is armed; otherwise the player is created on first use and the
\* call awaits play.stream(song.url).
PlayCall(m, song) ==
    IF song = UndefinedSong
    THEN [m EXCEPT !.timers = @ + 1]
    ELSE [m EXCEPT !.player = IF @ = "none" THEN "idle" ELSE @,
                   !.opening = Append(@, song)]

\* The Idle handler with every loop mode treated as 'none'.
OnIdleAlwaysShift(m) ==
    LET rest == [m EXCEPT !.songs = Shift(m.songs)]
    IN  PlayCall(rest, HeadOf(rest.songs))

\* player.on(AudioPlayerStatus.Idle, ...).
OnIdle(m) ==
    IF m.loop = "song"
    THEN PlayCall(m, HeadOf(m.songs))
    ELSE IF m.loop = "queue"
    THEN LET finishedSong == HeadOf(m.songs)
             moved == [m EXCEPT !.songs = Append(Shift(m.songs), finishedSong)]
         IN  PlayCall(moved, HeadOf(moved.songs))
    ELSE LET rest == [m EXCEPT !.songs = Shift(m.songs)]
         IN  PlayCall(rest, HeadOf(rest.songs))

\* player.on('error', ...), and the catch of play(): shift and play the head.
OnError(m) ==
    LET rest == [m EXCEPT !.songs = Shift(m.songs)]
    IN  PlayCall(rest, HeadOf(rest.songs))

\* The player has left the Playing state.
Stopped(m) == [m EXCEPT !.player = "idle", !.current = UndefinedSong]

\* `this.queues.delete(guildId)`: the entry, its player and the play() calls
\* working on it are gone from the guild.
Deleted(m) ==
    [NoMusic EXCEPT !.timers = m.timers, !.nextSong = m.nextSong,
                    !.started = m.started]

MusicFrame ==
    UNCHANGED <<backend, semantic, maxContext, deciding, startup, calls,
                messages, nextId, now, messageCache, pipe, userSpamTracking,
                spamHandlers, birthdays>>

\* handlePlay of a member in a voice channel the bot may join, with a query
\* that resolves to n songs.
HandlePlay(n) ==
    /\ music.nextSong + n - 1 <= MaxSongs
    /\ LET songs == [i \in 1..n |-> music.nextSong + i - 1]
           resolved == [music EXCEPT !.nextSong = @ + n]
       IN  music' =
             IF ~music.queue
             THEN PlayCall([resolved EXCEPT !.queue = TRUE, !.songs = songs],
                           songs[1])
             ELSE [resolved EXCEPT !.songs = @ \o songs]
    /\ last' = [op |-> "handlePlay", arg |-> n]
    /\ MusicFrame

\* play(): play.stream resolved, the resource is handed to the player.
StreamOpens(i) ==
    /\ i \in DOMAIN music.opening
    /\ music' = [music EXCEPT !.opening = WithoutAt(@, i),
                              !.player = "playing",
                              !.current = music.opening[i],
                              !.started = @ \cup {music.opening[i]}]
    /\ last' = [op |-> "streamOpens", arg |-> 0]
    /\ MusicFrame

\* play(): play.stream rejected, the catch shifts and plays the head.
StreamFails(i) ==
    /\ i \in DOMAIN music.opening
    /\ music' = OnError([music EXCEPT !.opening = WithoutAt(@, i)])
    /\ music'.timers <= MaxTimers
    /\ last' = [op |-> "streamFails", arg |-> 0]
    /\ MusicFrame

\* The resource ends: the player goes Idle and the Idle handler runs.
SongEnds ==
    /\ music.player = "playing"
    /\ music' = OnIdle(Stopped(music))
    /\ music'.timers <= MaxTimers
    /\ last' = [op |-> "songEnds", arg |-> 0]
    /\ MusicFrame

\* The resource fails while playing: the player emits 'error' and the error
\* handler runs. Whether the player then also emits Idle is the audio
\* library's choice; both handlers are registered on the same player.
PlayerError(idleFollows) ==
    /\ music.player = "playing"
    /\ music' = IF idleFollows
                THEN OnIdle(OnError(Stopped(music)))
                ELSE OnError(Stopped(music))
    /\ music'.timers <= MaxTimers
    /\ last' = [op |-> "playerError", arg |-> 0]
    /\ MusicFrame

\* handleSkip of a member in a voice channel: player.stop(), and a playing
\* player goes Idle.
HandleSkip ==
    /\ music.queue
    /\ music' = IF music.player = "playing"
                THEN OnIdle(Stopped(music))
                ELSE music
    /\ music'.timers <= MaxTimers
    /\ last' = [op |-> "handleSkip", arg |-> 0]
    /\ MusicFrame

\* handleStop of a member in a voice channel. The stopped player, or the
\* play() call still opening a stream, works on the emptied entry from then
\* on and ends in play(guildId, undefined).
HandleStop ==
    /\ music.queue
    /\ music' = IF music.player = "playing" \/ music.opening # <<>>
                THEN PlayCall(Deleted(music), UndefinedSong)
                ELSE Deleted(music)
    /\ music'.timers <= MaxTimers
    /\ last' = [op |-> "handleStop", arg |-> 0]
    /\ MusicFrame

HandleVolume(volume) ==
    /\ music.queue
    /\ music' = IF volume < 0 \/ volume > 100
                THEN music
                ELSE [music EXCEPT !.volume = volume]
    /\ last' = [op |-> "handleVolume", arg |-> volume]
    /\ MusicFrame

HandleLoop(mode) ==
    /\ music.queue
    /\ music' = [music EXCEPT !.loop = mode]
    /\ last' = [op |-> "handleLoop", arg |-> 0]
    /\ MusicFrame

\* handleShuffle: the head stays, the rest is permuted.
HandleShuffle ==
    /\ music.queue
    /\ Len(music.songs) >= 2
    /\ \E order \in [1..Len(music.songs) - 1 -> 2..Len(music.songs)] :
          /\ \A i, j \in DOMAIN order : order[i] = order[j] => i = j
          /\ music' = [music EXCEPT !.songs =
                          <<music.songs[1]>> \o
                          [i \in DOMAIN order |-> music.songs[order[i]]]]
    /\ last' = [op |-> "handleShuffle", arg |-> 0]
    /\ MusicFrame

\* handleRemove: `songs.splice(index, 1)` for a valid index.
HandleRemove(index) ==
    /\ music.queue
    /\ music' = IF index <= 0 \/ index >= Len(music.songs)
                THEN music
                ELSE [music EXCEPT !.songs = WithoutAt(@, index + 1)]
    /\ last' = [op |-> "handleRemove", arg |-> index]
    /\ MusicFrame

\* handleClear: `serverQueue.songs = [serverQueue.songs[0]]`.
HandleClear ==
    /\ music.queue
    /\ music' = [music EXCEPT !.songs = <<HeadOf(music.songs)>>]
    /\ last' = [op |-> "handleClear", arg |-> 0]
    /\ MusicFrame

\* The 30 s timeout of play(guildId, undefined) fires.
LeaveTimeout ==
    /\ music.timers > 0
    /\ music' = LET fired == [music EXCEPT !.timers = @ - 1]
                IN  IF fired.queue /\ fired.songs = <<>>
                    THEN Deleted(fired)
                    ELSE fired
    /\ last' = [op |-> "leaveTimeout", arg |-> 0]
    /\ MusicFrame

MusicNext ==
    \/ \E n \in 1..MaxBatch : HandlePlay(n)
    \/ \E i \in 1..MaxSongs : StreamOpens(i)
    \/ \E i \in 1..MaxSongs : StreamFails(i)
    \/ SongEnds
    \/ \E idleFollows \in BOOLEAN : PlayerError(idleFollows)
    \/ HandleSkip
    \/ HandleStop
    \/ \E volume \in Volumes : HandleVolume(volume)
    \/ \E mode \in LoopModes : HandleLoop(mode)
    \/ HandleShuffle
    \/ \E index \in 0..MaxSongs : HandleRemove(index)
    \/ HandleClear
    \/ LeaveTimeout

\* Streams open and resources play to their end: no StreamFails and no
\* PlayerError; the loop mode stays 'none'.
MusicLiveNext ==
    \/ HandlePlay(1)
    \/ \E i \in 1..MaxSongs : StreamOpens(i)
    \/ SongEnds
    \/ HandleSkip
    \/ HandleStop
    \/ \E index \in 0..MaxSongs : HandleRemove(index)
    \/ HandleClear
    \/ LeaveTimeout

MusicInit ==
    /\ backend = "postgres"
    /\ semantic = TRUE
    /\ maxContext = 3
    /\ messages = {}
    /\ nextId = 1
    /\ now = 0
    /\ messageCache = <<>>
    /\ calls = NoCalls
    /\ last = [op |-> "init"]
    /\ PipeIdle
    /\ DecidingIdle
    /\ StartupDone
    /\ SpamIdle
    /\ SubsystemsIdle

MusicSpec == MusicInit /\ [][MusicNext]_vars

\* The awaited play.stream settles, a playing resource reaches its end and
\* an armed timeout fires; user commands are never forced.
MusicLiveSpec ==
    /\ MusicInit
    /\ [][MusicLiveNext]_vars
    /\ WF_vars(\E i \in 1..MaxSongs : StreamOpens(i))
    /\ WF_vars(SongEnds)
    /\ WF_vars(LeaveTimeout)

(***************************************************************************)
(* /birthday (src/unnamed/part_003 handleBirthdaySlashCommand).            *)
(***************************************************************************)

\* `new Date().getFullYear()`.
CurrentYear == 2026

\* interaction.member: absent outside a guild.
BirthdayMembers ==
    [id : BirthdayUsers, present : BOOLEAN, administrator : BOOLEAN,
     moderateMembers : BOOLEAN]

\* The 'user' option: a user, or not given.
UserOptions == BirthdayUsers \cup {NULL}

\* The month, day and year options; year 0 is the option left out.
BirthdayMonths == {2, 4}
BirthdayDays == {29, 31}
BirthdayYears == {0, 2024}

IsLeapYear(year) ==
    (year % 4 = 0 /\ year % 100 # 0) \/ year % 400 = 0

\* `new Date(year || currentYear, month, 0).getDate()`.
DaysInMonth(year, month) ==
    LET y == IF year = 0 THEN CurrentYear ELSE year
    IN  IF month = 2 THEN (IF IsLeapYear(y) THEN 29 ELSE 28)
        ELSE IF month \in {4, 6, 9, 11} THEN 30
        ELSE 31

\* canManageOthers with the permission check left out.
CanManageOthersAnyMember(member) == member.present

\* `member && (permissions.has(Administrator) || permissions.has(ModerateMembers))`.
CanManageOthers(member) ==
    member.present /\ (member.administrator \/ member.moderateMembers)

\* `interaction.options.getUser('user') || interaction.user`.
TargetUser(member, option) == IF option = NULL THEN member.id ELSE option

\* What handleBirthdaySlashCommand does: the table afterwards, the store
\* function it called ("none" when it called none) and its reply.
BirthdayOutcome(b, member, option, subcommand, month, day, year, fails) ==
    LET target == TargetUser(member, option)
        isSelf == target = member.id
        out(rows, access, answer) ==
            [rows |-> rows, access |-> access, reply |-> answer]
    IN  IF ~isSelf /\ ~CanManageOthers(member)
        THEN out(b.rows, "none", "refused")
        ELSE IF subcommand = "set"
        THEN IF day > DaysInMonth(year, month)
             THEN out(b.rows, "none", "invalidDate")
             ELSE IF ~b.enabled
             THEN out(b.rows, "none", "disabled")
             ELSE IF fails
             THEN out(b.rows, "setBirthday", "setFailed")
             ELSE out([b.rows EXCEPT ![target] =
                          [day |-> day, month |-> month, year |-> year]],
                      "setBirthday", "set")
        ELSE IF ~b.enabled
        THEN out(b.rows, "none", "disabled")
        ELSE IF subcommand = "remove"
        THEN IF fails
             THEN out(b.rows, "removeBirthday", "removeFailed")
             ELSE out([b.rows EXCEPT ![target] = NoBirthday],
                      "removeBirthday", "removed")
        ELSE IF fails \/ b.rows[target] = NoBirthday
             THEN out(b.rows, "getBirthday", "notFound")
             ELSE out(b.rows, "getBirthday", "found")

HandleBirthdaySlashCommand ==
    \E member \in BirthdayMembers, option \in UserOptions,
       subcommand \in {"set", "remove", "get"},
       month \in BirthdayMonths, day \in BirthdayDays,
       year \in BirthdayYears, fails \in BOOLEAN :
        LET o == BirthdayOutcome(birthdays, member, option, subcommand,
                                 month, day, year, fails)
        IN  /\ birthdays' = [birthdays EXCEPT !.rows = o.rows]
            /\ last' = [op |-> "birthday", user |-> member.id,
                        target |-> TargetUser(member, option),
                        subcommand |-> subcommand,
                        administrator |-> member.administrator,
                        moderateMembers |-> member.moderateMembers,
                        access |-> o.access, reply |-> o.reply]
            /\ UNCHANGED <<backend, semantic, maxContext, deciding, startup,
                           calls, messages, nextId, now, messageCache, pipe,
                           userSpamTracking, spamHandlers, music>>

BirthdayNext == HandleBirthdaySlashCommand

\* The process starts with ENABLE_DATABASE set or not and an empty table.
BirthdayInit ==
    /\ backend = "postgres"
    /\ semantic = TRUE
    /\ maxContext = 3
    /\ messages = {}
    /\ nextId = 1
    /\ now = 0
    /\ messageCache = <<>>
    /\ calls = NoCalls
    /\ last = [op |-> "init"]
    /\ PipeIdle
    /\ DecidingIdle
    /\ StartupDone
    /\ SpamIdle
    /\ spamHandlers = NoSpamHandlers
    /\ music = NoMusic
    /\ birthdays \in {[NoBirthdays EXCEPT !.enabled = e] : e \in BOOLEAN}

BirthdaySpec == BirthdayInit /\ [][BirthdayNext]_vars

FriendlyInit ==
    /\ backend \in {"sqlite", "postgres"}
    /\ semantic \in BOOLEAN
    /\ maxContext = 3
    /\ messages = {}
    /\ nextId = 1
    /\ now = 0
    /\ messageCache = <<>>
    /\ calls = NoCalls
    /\ last = [op |-> "init"]
    /\ PipeIdle
    /\ botjs = "part_003"
    /\ enableMentions = FALSE
    /\ randomAt = {}
    /\ friendlyFire \in BOOLEAN
    /\ StartupDone
    /\ SpamIdle
    /\ SubsystemsIdle

FriendlyNext ==
    \/ BotMessageCreate
    \/ SendTyping
    \/ Context
    \/ Completion
    \/ StoreUser
    \/ StoreAssistant
    \/ Reply
    \/ Wait

FriendlySpec == FriendlyInit /\ [][FriendlyNext]_vars

(* Start-up: the ready handler runs initializeSystem once, while
   messageCreate handlers may already be running. *)

\* performCleanup: cleanupOldMessages(30)
CLEANUP_DAYS == 30

\* client.once('ready', ...) calls initializeSystem: the ENABLE_DATABASE test.
InitializeSystem ==
    /\ startup.pc = "ready"
    /\ startup' = [startup EXCEPT
                      !.pc = IF startup.enableDatabase THEN "testConnection" ELSE "done"]
    /\ UNCHANGED <<backend, semantic, maxContext, subsystems, deciding, userSpamTracking, calls, messages, nextId, now,
                   messageCache, last, pipe>>

\* await testConnection(), in the semantic branch or in the basic one.
TestConnection ==
    /\ startup.pc = "testConnection"
    /\ \E dbConnected \in BOOLEAN :
        /\ startup' = [startup EXCEPT
                          !.dbConnected = dbConnected,
                          !.pc = IF dbConnected THEN "initializeDatabase" ELSE "done"]
        /\ semantic' = IF startup.enableSemanticSearch /\ ~dbConnected
                       THEN FALSE ELSE semantic
    /\ UNCHANGED <<backend, maxContext, subsystems, deciding, userSpamTracking, calls, messages, nextId, now,
                   messageCache, last, pipe>>

\* await initializeDatabase()
InitializeDatabase ==
    /\ startup.pc = "initializeDatabase"
    /\ \E schemaInitialized \in BOOLEAN :
        /\ startup' = [startup EXCEPT
                          !.schemaInitialized = schemaInitialized,
                          !.pc = IF startup.enableSemanticSearch /\ schemaInitialized
                                 THEN "initialize" ELSE "done"]
        /\ semantic' = IF startup.enableSemanticSearch /\ ~schemaInitialized
                       THEN FALSE ELSE semantic
    /\ UNCHANGED <<backend, maxContext, subsystems, deciding, userSpamTracking, calls, messages, nextId, now,
                   messageCache, last, pipe>>

\* await semanticContextManager.initialize(): performCleanup, which catches
\* its own failure, then isInitialized = true and return true; the caller
\* sets isSemanticMode = true.
ContextManagerInitialize ==
    /\ startup.pc = "initialize"
    /\ \E ok \in BOOLEAN :
        messages' = cleanupOldMessages(CLEANUP_DAYS, ok).rows
    /\ startup' = [startup EXCEPT !.contextInitialized = TRUE, !.pc = "done"]
    /\ semantic' = TRUE
    /\ UNCHANGED <<backend, maxContext, subsystems, deciding, userSpamTracking, calls, nextId, now,
                   messageCache, last, pipe>>

StartupInit ==
    /\ backend \in {"sqlite", "postgres"}
    /\ semantic = FALSE
    /\ maxContext = 3
    /\ messages = {}
    /\ nextId = 1
    /\ now = 0
    /\ messageCache = <<>>
    /\ calls = NoCalls
    /\ last = [op |-> "init"]
    /\ PipeIdle
    /\ DecidingIdle
    /\ startup \in [pc : {"ready"}, enableDatabase : BOOLEAN,
                     enableSemanticSearch : BOOLEAN, dbConnected : {FALSE},
                     schemaInitialized : {FALSE}, contextInitialized : {FALSE}]
    /\ SpamIdle
    /\ SubsystemsIdle

StartupNext ==
    \/ InitializeSystem
    \/ TestConnection
    \/ InitializeDatabase
    \/ ContextManagerInitialize
    \/ MessageCreate
    \/ FetchReplied
    \/ SendTyping
    \/ Context
    \/ Completion
    \/ StoreUser
    \/ StoreAssistant
    \/ Reply
    \/ Wait

StartupSpec == StartupInit /\ [][StartupNext]_vars

PipelineInit ==
    /\ backend \in {"sqlite", "postgres"}
    /\ semantic \in BOOLEAN
    /\ maxContext = 3
    /\ messages = {}
    /\ nextId = 1
    /\ now = 0
    /\ messageCache = <<>>
    /\ calls = NoCalls
    /\ last = [op |-> "init"]
    /\ PipeIdle
    /\ DecidingIdle
    /\ StartupDone
    /\ SpamIdle
    /\ SubsystemsIdle

PipelineNext ==
    \/ MessageCreate
    \/ FetchReplied
    \/ SendTyping
    \/ Context
    \/ Completion
    \/ StoreUser
    \/ StoreAssistant
    \/ Reply
    \/ Wait

PipelineSpec == PipelineInit /\ [][PipelineNext]_vars

CleanSpec == PipelineInit /\ [][Clean]_vars

\* The pipeline on messages that start with the command prefix.
CommandNext ==
    \/ PrefixedMessageCreate
    \/ SendTyping
    \/ Context
    \/ Completion
    \/ StoreUser
    \/ StoreAssistant
    \/ Reply
    \/ Wait

CommandSpec == PipelineInit /\ [][CommandNext]_vars

-----------------------------------------------------------------------------
(* Properties of the store (Spec). *)

\* C1: a storeMessage call for a Discord message id that is already stored
\* returns null and leaves the table as it was, with exactly one row of
\* that id.
C1_IdempotentInsert ==
    [][(/\ last'.op = "storeMessage"
        /\ HasMessageId(messages, last'.args.discordMessageId))
       => (/\ last'.ret = NullRet
           /\ messages' = messages
           /\ Cardinality({r \in messages' :
                  r.discord_message_id = last'.args.discordMessageId}) = 1)]_vars

\* C2: findSimilarMessages and getRecentMessages called with a guild return
\* only rows of that guild.
C2_PartitionIsolation ==
    last.op \in {"findSimilarMessages", "getRecentMessages"}
        => \A i \in DOMAIN last.ret : last.ret[i].guild_id = last.guildId

\* A search that returned rows while another guild held a row matching the
\* same query.
C2_Witness ==
    /\ last.op = "findSimilarMessages"
    /\ last.ret # <<>>
    /\ \E r \in messages :
        /\ r.guild_id # last.guildId
        /\ Matches(r.content, last.queryText)

\* C6: no step removes a row of type assistant, so every assistant turn ever
\* stored stays in the table through any sequence of cleanupOldMessages.
C6_AssistantTurnsKept ==
    [][\A r \in messages : r.message_type = "assistant" => r \in messages']_vars

\* A cleanup that deleted rows and left an assistant row older than the
\* retention it was called with.
C6_Witness ==
    /\ last.op = "cleanupOldMessages"
    /\ last.ret > 0
    /\ \E r \in messages :
        /\ r.message_type = "assistant"
        /\ r.created_at < now - last.daysOld * DayMs

\* C10: findSimilarMessages returns at most limit rows, by similarity_score
\* descending and, among equal scores, by created_at descending, on every
\* backend.
C10_RankedOrder ==
    last.op = "findSimilarMessages"
        => /\ Len(last.ret) <= last.limit
           /\ \A i, j \in DOMAIN last.ret :
                i < j =>
                    \/ last.ret[i].similarity_score > last.ret[j].similarity_score
                    \/ /\ last.ret[i].similarity_score = last.ret[j].similarity_score
                       /\ last.ret[i].created_at >= last.ret[j].created_at

-----------------------------------------------------------------------------
(* Properties of getRelevantContext (CtxSpec). *)

\* C3: getRelevantContext returns at most MAX_CONTEXT_MESSAGES entries, on a
\* cache miss, on a cache hit and on the fallback path.
C3_ContextBudget ==
    last.op = "getRelevantContext" => Len(last.ret) <= MAX_CONTEXT_MESSAGES

\* A cache hit that returned a full context.
C3_Witness ==
    /\ last.op = "getRelevantContext"
    /\ last.path = "hit"
    /\ Len(last.ret) = MAX_CONTEXT_MESSAGES

\* A call that merged relevance results with fetched recent turns.
Merged ==
    /\ last.op = "getRelevantContext"
    /\ last.path = "miss"
    /\ last.recentAsked

\* The i-th fetched recent turn is not in the returned context.
LeftOut(i) == RecentEntry(last.recent[i]) \notin Range(last.ret)

EqualsRelevance(i) ==
    \E j \in DOMAIN last.similar : last.similar[j].content = last.recent[i].content

EqualsEarlierRecent(i) ==
    \E k \in 1..(i - 1) : last.recent[k].content = last.recent[i].content

RelevanceKept ==
    \A j \in DOMAIN last.similar : SimilarEntry(last.similar[j]) \in Range(last.ret)

\* C4 as stated: a fetched recent turn is left out exactly when its text
\* equals the text of a relevance result; relevance results are kept.
C4_LeftOutIffRelevance ==
    Merged => /\ \A i \in DOMAIN last.recent : LeftOut(i) <=> EqualsRelevance(i)
              /\ RelevanceKept

\* C4: a fetched recent turn is left out exactly when its text equals the
\* text of a relevance result or of a recent turn fetched before it;
\* relevance results are kept.
C4_LeftOutIffInContext ==
    Merged => /\ \A i \in DOMAIN last.recent :
                    LeftOut(i) <=> (EqualsRelevance(i) \/ EqualsEarlierRecent(i))
              /\ RelevanceKept

\* A merge with a relevance result that left out the recent turn of the same
\* text and appended another.
C4_Witness ==
    /\ Merged
    /\ last.similar # <<>>
    /\ \E i \in DOMAIN last.recent : LeftOut(i) /\ EqualsRelevance(i)
    /\ \E i \in DOMAIN last.recent : ~LeftOut(i)

\* A call whose relevance search failed.
SearchFailed ==
    /\ last.op = "getRelevantContext"
    /\ last.similarAsked
    /\ ~last.okS

\* C5: when the relevance search fails, getRelevantContext asks the recency
\* query for MAX_CONTEXT_MESSAGES rows and returns at most that many entries,
\* each made of a fetched recent turn and none with a similarity.
C5_FallbackToRecency ==
    SearchFailed =>
        /\ last.recentAsked
        /\ last.recent \in getRecentMessages(last.guildId, last.userId,
                                             MAX_CONTEXT_MESSAGES, last.okR)
        /\ Len(last.ret) <= MAX_CONTEXT_MESSAGES
        /\ \A i \in DOMAIN last.ret :
            /\ "similarity" \notin DOMAIN last.ret[i]
            /\ \E k \in DOMAIN last.recent : last.ret[i] = RecentEntry(last.recent[k])
        /\ \A k \in DOMAIN last.recent :
            \E i \in DOMAIN last.ret : last.ret[i].content = last.recent[k].content

\* A failed search for a text that a stored row matches, answered with a
\* full context.
C5_Witness ==
    /\ SearchFailed
    /\ Len(last.ret) = MAX_CONTEXT_MESSAGES
    /\ \E r \in messages :
        SimilarWhere(r, last.userInput, last.guildId, last.userId)

-----------------------------------------------------------------------------
(* Properties of the message pipeline (PipelineSpec). *)

\* C7: whatever the completion service does, the text generateAMResponse
\* returns has at least 3 characters.
C7_ReplyLength == pc = "reply" => Length(reply) >= 3

\* A completion text that is not empty and is replaced by the filler.
C7_Witness ==
    /\ pc = "reply"
    /\ last.op = "completion"
    /\ last.kind = "content"
    /\ ~last.empty
    /\ reply = Filler

\* C8: when the completion call fails, generateAMResponse returns the apology
\* and has stored the user turn and an assistant turn holding the apology.
C8_FailureStillRecorded ==
    (/\ pc = "reply"
     /\ semantic
     /\ cur.completion \in FailureKinds
     /\ ~cur.storeFailed)
        => /\ reply = Apology
           /\ \E r \in messages :
                /\ r.discord_message_id = cur.id
                /\ r.message_type = "user"
           /\ \E r \in messages :
                /\ r.discord_message_id = AssistantId(cur.id)
                /\ r.message_type = "assistant"
                /\ r.content = Apology

\* C9: a handler that decided to respond does not end without a reply,
\* whatever fails before message.reply is called.
C9_NeverSilent ==
    (/\ last.op = "handlerEnd"
     /\ last.decided
     /\ last.failed # "reply")
        => last.replied

\* C13: a Message Store call during which the backend fails returns its
\* degraded value (storeMessage null, findSimilarMessages and
\* getRecentMessages the empty list, cleanupOldMessages 0) and leaves the
\* stored turns as they were.
C13_DegradesUnchanged ==
    [][(/\ last'.op \in {"storeMessage", "findSimilarMessages",
                         "getRecentMessages", "cleanupOldMessages"}
        /\ ~last'.ok)
       => /\ messages' = messages
          /\ last'.op = "storeMessage" => last'.ret = NullRet
          /\ last'.op \in {"findSimilarMessages", "getRecentMessages"}
                => last'.ret = <<>>
          /\ last'.op = "cleanupOldMessages" => last'.ret = 0]_vars

\* C14: a list once returned for a key is what every invocation started
\* afterwards for that key returns, without a query to the store, and the
\* cached entry of a key is never removed or replaced.
C14_CacheStable ==
    [][/\ OverlapKey \in DOMAIN messageCache =>
            /\ OverlapKey \in DOMAIN messageCache'
            /\ messageCache'[OverlapKey] = messageCache[OverlapKey]
       /\ \A c \in CallIds :
            (calls'[c].pc = "done" /\ calls'[c].before # {}) =>
                /\ calls'[c].before = {calls'[c].ret}
                /\ ~calls'[c].queried]_vars

\* C12: getRelevantContext always returns a list; when the main path throws
\* it returns the unscored rows of a recency query for the full budget, and
\* the empty list when that query fails as well.
C12_NeverRaises ==
    last.op = "getRelevantContext" =>
        /\ last.path \in {"hit", "miss", "fallback"}
        /\ last.path = "fallback" =>
              /\ ~last.similarAsked
              /\ last.recentAsked
              /\ last.recentLimit = MAX_CONTEXT_MESSAGES
              /\ last.recent \in getRecentMessages(last.guildId, last.userId,
                                                   MAX_CONTEXT_MESSAGES, last.okR)
              /\ last.ret = FallbackEntries(last.recent)
              /\ \A i \in DOMAIN last.ret : "similarity" \notin DOMAIN last.ret[i]
              /\ ~last.okR => last.ret = <<>>

\* The main path and the fallback query both fail while the guild has turns.
C12_Witness ==
    /\ last.op = "getRelevantContext"
    /\ last.path = "fallback"
    /\ ~last.okR
    /\ \E m \in messages : m.guild_id = last.guildId
    /\ last.ret = <<>>

-----------------------------------------------------------------------------
(* Properties of getRelevantContext under MAX_CONTEXT_MESSAGES=4 (Ctx4Spec). *)

\* The i-th returned entry came from the relevance search.
FromSearch(i) == "similarity" \in DOMAIN last.ret[i]

\* C11: in the returned list every entry of the relevance search precedes
\* every recency-only entry, of two relevance entries the more relevant one
\* comes first whatever the sign of the backend's score, and recency-only
\* entries come by created_at descending.
C11_SortOrder ==
    last.op = "getRelevantContext" =>
        \A i, j \in DOMAIN last.ret :
            i < j =>
                /\ FromSearch(j) => FromSearch(i)
                /\ (FromSearch(i) /\ FromSearch(j)) =>
                        Relevance(last.ret[i].content, last.userInput)
                            >= Relevance(last.ret[j].content, last.userInput)
                /\ (~FromSearch(i) /\ ~FromSearch(j)) =>
                        last.ret[i].timestamp >= last.ret[j].timestamp

\* C15: with semantic search on, a call that misses the cache asks the
\* relevance search for floor(MAX_CONTEXT_MESSAGES/2) rows, and it issues
\* the recency query exactly when the relevance entries number fewer than
\* MAX_CONTEXT_MESSAGES/2, with limit MAX_CONTEXT_MESSAGES minus that number.
C15_QueryLimits ==
    (last.op = "getRelevantContext" /\ last.path = "miss" /\ semantic) =>
        /\ last.similarAsked
        /\ last.similarLimit = MAX_CONTEXT_MESSAGES \div 2
        /\ Len(last.similar) <= MAX_CONTEXT_MESSAGES \div 2
        /\ last.recentAsked <=> 2 * Len(last.similar) < MAX_CONTEXT_MESSAGES
        /\ last.recentAsked =>
              last.recentLimit = MAX_CONTEXT_MESSAGES - Len(last.similar)

\* One relevance entry of the two asked for: the recency query is issued
\* for the remaining three.
C15_Witness ==
    /\ last.op = "getRelevantContext"
    /\ last.path = "miss"
    /\ Len(last.similar) = 1
    /\ last.recentAsked
    /\ last.recentLimit = 3
    /\ Len(last.recent) = 3

\* The turns of the guild that the relevance search did not return.
FurtherTurns ==
    {r \in messages :
        /\ r.guild_id = last.guildId
        /\ \A i \in DOMAIN last.similar : last.similar[i].id # r.id}

\* The worked example: budget 4, two scored hits, three further turns of
\* which one repeats the text of a scored hit.
TwoHitsThreeFurther ==
    /\ last.op = "getRelevantContext"
    /\ last.path = "miss"
    /\ MAX_CONTEXT_MESSAGES = 4
    /\ Len(last.similar) = 2
    /\ Cardinality(FurtherTurns) = 3
    /\ Cardinality({r \in FurtherTurns :
            \E i \in DOMAIN last.similar : last.similar[i].content = r.content}) = 1

\* C16 as stated: in the worked example the call returns four entries, the
\* two scored ones and then two recency-only ones.
C16_FourEntries ==
    TwoHitsThreeFurther =>
        /\ Len(last.ret) = 4
        /\ FromSearch(1) /\ FromSearch(2)
        /\ ~FromSearch(3) /\ ~FromSearch(4)

\* C16: in the worked example the recency query is not issued (two entries
\* are not fewer than half of four) and the call returns exactly the two
\* scored entries.
C16_TwoScoredOnly ==
    TwoHitsThreeFurther =>
        /\ ~last.recentAsked
        /\ Len(last.ret) = 2
        /\ \A i \in DOMAIN last.ret :
              /\ FromSearch(i)
              /\ \E j \in DOMAIN last.similar : last.ret[i] = SimilarEntry(last.similar[j])

C16_Witness ==
    /\ TwoHitsThreeFurther
    /\ Len(last.ret) = 2

\* C18: generateAMResponse hands the reply to the handler straight after
\* the completion: no store write stands between the completion and the
\* step that delivers the reply.
C18_FireAndForget ==
    [][pc' = "reply" => pc = "completion"]_vars

-----------------------------------------------------------------------------
(* Properties of the recording step (RecordSpec). *)

\* C17: the assistant-turn write comes right after the attempt of the
\* user-turn write, whatever that returned; the row it adds has the id
\* 'assistant_' + the user turn's id; and no two assistant turns share an
\* id, however often the exchange is recorded.
C17_OneAssistantTurn ==
    [][/\ last'.op = "storeAssistantMessage" =>
            /\ last.op = "storeUserMessage"
            /\ \A r \in messages' \ messages :
                  /\ r.discord_message_id = AssistantId(cur.id)
                  /\ r.message_type = "assistant"
       /\ \A r1, r2 \in messages' :
            (/\ r1.message_type = "assistant"
             /\ r1.discord_message_id = r2.discord_message_id) => r1 = r2]_vars

-----------------------------------------------------------------------------
(* Properties of the Deciding step (DecideSpec). *)

\* C19: for a message that mentions the bot the Deciding step decides to
\* respond, whatever the channel, the guild, the cooldown and the draw.
C19_MentionResponds ==
    (last.op = "deciding" /\ last.reached /\ last.mentioned) => last.shouldRespond

\* C20: a response to a message that does not mention the bot is decided
\* only in the home channel and only when more than the cooldown has passed
\* since every earlier such response, and it sets lastResponseTime; any
\* other Deciding step, a mention-triggered response included, leaves
\* lastResponseTime as it was.
C20_Cooldown ==
    [][last'.op = "deciding" =>
         IF last'.shouldRespond /\ ~last'.mentioned
         THEN /\ last'.inChannel
              /\ \A t \in randomAt : now - t > CooldownMs
              /\ lastResponseTime' = now
         ELSE lastResponseTime' = lastResponseTime]_vars

\* A second non-mention response has been decided.
C20_Witness ==
    /\ Cardinality(randomAt) >= 2
    /\ last.op = "deciding"
    /\ last.shouldRespond
    /\ ~last.mentioned

-----------------------------------------------------------------------------
(* Properties of cleanupOldMessages (Spec). *)

\* C21: once the backend has answered cleanupOldMessages(daysOld), no user
\* turn whose age is at least daysOld days is left in the table; with
\* daysOld = 0 that includes a user turn created at the current instant,
\* so the call cannot return 0 while such a turn is stored.
C21_PurgesAgeAtLeast ==
    (last.op = "cleanupOldMessages" /\ last.ok) =>
        \A r \in messages :
            r.message_type = "user" => now - r.created_at < last.daysOld * DayMs

-----------------------------------------------------------------------------
(* Further properties of the message pipeline (PipelineSpec). *)

\* C22: when the completion call timed out, the text that generateAMResponse
\* hands over for delivery is the canned filler.
C22_TimeoutGivesFiller ==
    (pc = "reply" /\ cur.completion = "timeout") => reply = Filler

\* C23: a handler calls the completion service at most once, and at most
\* one reply is sent to any one message.
C23_OneCallOneReply ==
    /\ pc = "completion" => cur.completion = "none"
    /\ \A i, j \in DOMAIN outbox : outbox[i].to = outbox[j].to => i = j

-----------------------------------------------------------------------------
(* Properties of the cleanup (CleanSpec). *)

\* The text without a self-label at its start.
StripLeadingLabel(text) ==
    IF TrimStart(text) # <<>> /\ Head(TrimStart(text)) = "AM:"
    THEN Tail(TrimStart(text))
    ELSE text

\* The cleaning as stated: the leading self-label removed, the text cut at
\* the first 'Human:', newlines replaced by spaces, the rest kept (up to
\* white space at the ends).
StatedCleaning(raw) ==
    Trim(ReplaceNewlines(BeforeFirst(StripLeadingLabel(raw), "Human:")))

\* C24: the cleaned reply is the model's text without a leading 'AM:',
\* cut at the first 'Human:' and with newlines replaced by spaces, and it is
\* the canned filler exactly when that text is empty or shorter than 3
\* characters; it contains neither 'Human:' nor a newline.
C24_CleaningAsStated ==
    last.op = "clean" =>
        /\ last.ret = IF Length(StatedCleaning(last.raw)) < 3
                      THEN Filler
                      ELSE StatedCleaning(last.raw)
        /\ ~Includes(last.ret, "Human:")
        /\ ~Includes(last.ret, "\n")

-----------------------------------------------------------------------------
(* Properties of calculateTextSimilarity (SimilaritySpec). *)

\* The lowercase whitespace-split tokens of the two texts compared last.
WordsA == SplitWhitespace(ToLowerCase(last.text1))
WordsB == SplitWhitespace(ToLowerCase(last.text2))

\* Twice the stated score as a fraction: the Jaccard similarity (0 when the
\* union is empty) plus the length similarity (1 when both lengths are 0).
StatedJaccard ==
    IF Range(WordsA) \cup Range(WordsB) = {} THEN Fraction(0, 1)
    ELSE Fraction(Cardinality(Range(WordsA) \cap Range(WordsB)),
                  Cardinality(Range(WordsA) \cup Range(WordsB)))

StatedLength ==
    IF Len(WordsA) = 0 /\ Len(WordsB) = 0 THEN Fraction(1, 1)
    ELSE LET m == Max(Len(WordsA), Len(WordsB))
             d == Abs(Len(WordsA) - Len(WordsB))
         IN IF d > m THEN Fraction(0, 1) ELSE Fraction(m - d, m)

ForeignTurn(r) == r.guild_id = "g1" /\ r.author_id # last.userId

\* C26: the orchestrator builds context with the author's id, and every
\* entry of the window it gets is a stored user turn written by that author;
\* turns of other users and assistant turns are not in it.
C26_OwnTurnsOnly ==
    last.op = "buildContext" =>
        \A i \in DOMAIN last.ret :
            /\ last.ret[i].type = "user"
            /\ last.ret[i].author = last.userId
            /\ \E r \in messages :
                  /\ r.author_id = last.userId
                  /\ r.content = last.ret[i].content
                  /\ r.created_at = last.ret[i].timestamp

\* A window of the author's own turn, built while the store also holds a
\* matching turn of another user and an assistant turn.
C26_Witness ==
    /\ last.op = "buildContext"
    /\ Len(last.ret) > 0
    /\ \E r \in messages : ForeignTurn(r) /\ r.message_type = "user"
    /\ \E r \in messages : ForeignTurn(r) /\ r.message_type = "assistant"


\* The entries of the window that come before the ones shown.
EntriesLeftOut == Len(last.window) - Len(last.ret)

\* C27: the history part of the prompt holds at most 10 entries; of a window
\* of more than 10 entries it holds the last 10 in window order, and the
\* entries before them are left out.
C27_LastTenOfWindow ==
    last.op = "history" =>
        /\ Len(last.ret) <= 10
        /\ Len(last.ret) = Min(10, Len(last.window))
        /\ \A i \in DOMAIN last.ret :
              /\ last.ret[i].content = last.window[EntriesLeftOut + i].content
              /\ last.ret[i].speaker \in {"AM", last.window[EntriesLeftOut + i].author}

\* A window of 12 entries: the history starts at its third entry.
C27_Witness ==
    /\ last.op = "history"
    /\ Len(last.window) = 12
    /\ Len(last.ret) = 10
    /\ last.ret[1].content = last.window[3].content
    /\ last.ret[1].content # last.window[1].content


\* isSemanticMode is true only once initializeSystem has seen both switches
\* set and the connection test, the schema initialization and the
\* initialization of the context manager have succeeded.
IsSemanticModeJustified ==
    semantic =>
        /\ startup.pc = "done"
        /\ startup.enableDatabase /\ startup.enableSemanticSearch
        /\ startup.dbConnected /\ startup.schemaInitialized
        /\ startup.contextInitialized

\* isSemanticMode never goes back to false.
IsSemanticModeStable == [][semantic => semantic']_vars

\* While isSemanticMode is false no step of the message pipeline changes the
\* Message Store or the context cache.
NoStoreAccessWhileSimple ==
    [][(~semantic /\ pc # "idle" /\ pc' # pc) =>
            (messages' = messages /\ messageCache' = messageCache)]_vars

\* C28: a message handled during start-up, whose reply is built without
\* context because isSemanticMode is false at the context lookup, is not
\* recorded.  (The other parts of the claim are IsSemanticModeJustified,
\* IsSemanticModeStable and NoStoreAccessWhileSimple.)
C28_StartupNotRecorded ==
    [][(pc = "completion" /\ last.op = "context" /\ last.path = "none")
            => pc' # "storeUser"]_vars


\* The message that ended without a response is one the filter must drop.
Dropped == last.self \/ (last.bot /\ ~FRIENDLY_FIRE)

\* C29: neither the command pipeline nor the reply pipeline runs on a message
\* the bot wrote itself, and they run on a message of another bot only when
\* FRIENDLY_FIRE is enabled: such a message gets no command reply, is never
\* the message a handler is working on, and gets no generated reply.
C29_IgnoresSelfAndBots ==
    /\ pc # "idle" => (~cur.self /\ (cur.bot => FRIENDLY_FIRE))
    /\ last.op = "handlerEnd" =>
          /\ last.decided => (~last.self /\ (last.bot => FRIENDLY_FIRE))
          /\ Dropped => \A i \in DOMAIN outbox : outbox[i].to # last.id

\* With FRIENDLY_FIRE enabled a message of the bot itself came in and its
\* handler ended without a command reply and without a response.
C29_Witness ==
    /\ FRIENDLY_FIRE
    /\ last.op = "handlerEnd"
    /\ last.self
    /\ ~last.decided
    /\ outbox = <<>>


\* C30: whatever the counters are, handleSpamDetection attempts no ban of a
\* member who holds Administrator or ModerateMembers, and attempts no ban
\* when the bot lacks BanMembers.
C30_NoBanOfModerators ==
    last.op = "spamDetection" =>
        /\ (last.member.administrator \/ last.member.moderateMembers) => last.bans = 0
        /\ ~last.botCanBan => last.bans = 0

\* A moderator who is not an administrator went over the threshold, the bot
\* may ban, handleSpamDetection was called and banned nobody.
C30_Witness ==
    /\ last.op = "spamDetection"
    /\ last.handled > 0
    /\ last.botCanBan
    /\ last.member.present
    /\ last.member.moderateMembers
    /\ ~last.member.administrator
    /\ last.bans = 0


\* The entries of one kind that count for the message just handled: the
\* ones recorded for the user less than a window ago, and the message's own.
Counted(entries, count) ==
    {<<i, entries[i].channelId, entries[i].count>> :
        i \in {j \in DOMAIN entries : last.at - entries[j].timestamp < SPAM_WINDOW_MS}}
    \cup (IF count > 0 THEN {<<0, last.channelId, count>>} ELSE {})

RECURSIVE SumOfCounted(_)
SumOfCounted(S) ==
    IF S = {} THEN 0
    ELSE LET e == CHOOSE x \in S : TRUE IN e[3] + SumOfCounted(S \ {e})

\* At least threshold items in the counted entries, in more than one channel,
\* the message itself being one of them.
OverThreshold(entries, count, threshold) ==
    /\ count > 0
    /\ SumOfCounted(Counted(entries, count)) >= threshold
    /\ Cardinality({e[2] : e \in Counted(entries, count)}) > 1

\* C31: spam detection fires for a user exactly when the images, or the
\* links, of the user's messages recorded within the window total at least
\* the threshold and span more than one channel, or one message holds at
\* least SPAM_LINK_THRESHOLD links; older entries are not counted and images
\* sent in one channel never fire it.
C31_FiresExactlyOverThreshold ==
    last.op = "spamDetection" =>
        /\ last.handled > 0 <=>
              \/ OverThreshold(last.before.images, last.imageCount, SPAM_IMAGE_THRESHOLD)
              \/ OverThreshold(last.before.links, last.linkCount, SPAM_LINK_THRESHOLD)
              \/ last.linkCount >= SPAM_LINK_THRESHOLD
        /\ last.imageSpam =>
              \E i \in DOMAIN last.before.images :
                  /\ last.before.images[i].channelId # last.channelId
                  /\ last.at - last.before.images[i].timestamp < SPAM_WINDOW_MS

\* Images sent earlier in another channel and still in the window, with
\* the images of this message, reach the threshold: image spam fires.
C31_Witness ==
    /\ last.op = "spamDetection"
    /\ last.imageSpam
    /\ last.linkCount = 0
    /\ Len(last.before.images) = 1


\* C32: however the handlers of one user's messages interleave, a burst
\* leads to one handleSpamDetection run: the tracking entry that fired a run
\* is cleared before a later message is evaluated, so a message arriving
\* while the run is in flight starts a run of its own only when it is a
\* burst by itself (SPAM_LINK_THRESHOLD links in the one message).
C32_OneRunPerBurst ==
    (/\ last.op = "spamArrive"
     /\ last.others > 0
     /\ InRun(spamHandlers[last.handler]))
        => last.linkCount >= SPAM_LINK_THRESHOLD


\* C33: every song in the guild's queue is eventually handed to the player
\* or has left the queue again (skip, stop, remove and clear are the only
\* steps of MusicLiveSpec that take an unstarted song out), when streams
\* open, playing songs finish and the loop mode is 'none'.
C33_QueuedSongsStart ==
    \A song \in 1..MaxSongs :
        (music.queue /\ song \in Range(music.songs))
            ~> (song \in music.started \/ song \notin Range(music.songs))


\* C34: when the playing song fails, a stream fails to open, or the playing
\* song ends with loop mode 'none', the queue loses exactly its head; for
\* the playing song that head is the song that was playing, and the head of
\* what remains is the song whose stream is opened next.
C34_OnlyFinishedSongLeaves ==
    [][(\/ last'.op \in {"streamFails", "playerError"}
        \/ (last'.op = "songEnds" /\ music.loop = "none"))
       => /\ music'.songs = Shift(music.songs)
          /\ last'.op # "streamFails" => HeadOf(music.songs) = music.current
          /\ music'.songs # <<>> =>
                /\ music'.opening # <<>>
                /\ music'.opening[Len(music'.opening)] = Head(music'.songs)]_vars


\* C35: when the playing song ends, loop mode 'song' leaves the songs as
\* they are and opens the head again, 'queue' moves the head to the tail
\* (same length, same songs), 'none' removes the head only; volume, loop
\* mode and the guild's entry stay as they are.
C35_IdleFollowsLoopMode ==
    [][last'.op = "songEnds"
       => /\ music.loop = "song" =>
                /\ music'.songs = music.songs
                /\ music'.opening = Append(music.opening, HeadOf(music.songs))
          /\ music.loop = "queue" =>
                /\ Len(music'.songs) = Len(music.songs)
                /\ Range(music'.songs) = Range(music.songs)
                /\ music.songs # <<>> =>
                      music'.songs = Append(Tail(music.songs), Head(music.songs))
          /\ music.loop = "none" => music'.songs = Shift(music.songs)
          /\ music'.volume = music.volume
          /\ music'.loop = music.loop
          /\ music'.queue = music.queue]_vars



\* C36: handleRemove and handleClear keep the song at position 0: a remove
\* with a valid index deletes exactly the song at that index, a clear leaves
\* exactly the song that was at position 0, and no step ever leaves an
\* undefined entry in the guild's queue.
C36_CurrentSongKept ==
    [][/\ last'.op = "handleRemove" =>
              \/ music'.songs = music.songs
              \/ /\ last'.arg \in 1..(Len(music.songs) - 1)
                 /\ music'.songs = WithoutAt(music.songs, last'.arg + 1)
                 /\ Head(music'.songs) = Head(music.songs)
       /\ last'.op = "handleClear" =>
              /\ Len(music'.songs) = 1
              /\ music'.songs[1] \in Range(music.songs)
              /\ music'.songs[1] = HeadOf(music.songs)
       /\ UndefinedSong \notin Range(music'.songs)]_vars


\* C37: a /birthday command of a user who is neither Administrator nor
\* moderator changes no other user's row, and when it targets another user
\* it is refused without a call of setBirthday, getBirthday or
\* removeBirthday and with the table as it was.
C37_OnlyOwnBirthday ==
    [][(/\ last'.op = "birthday"
        /\ ~(last'.administrator \/ last'.moderateMembers))
       => /\ \A u \in BirthdayUsers \ {last'.user} :
                birthdays'.rows[u] = birthdays.rows[u]
          /\ last'.access # "none" => last'.target = last'.user
          /\ last'.target # last'.user =>
                /\ last'.reply = "refused"
                /\ last'.access = "none"
                /\ birthdays' = birthdays]_vars

\* u1, without the permissions, has asked for the stored birthday of u2 and
\* was refused.
C37_Witness ==
    /\ last.op = "birthday"
    /\ last.user = "u1"
    /\ last.target = "u2"
    /\ last.subcommand = "get"
    /\ ~(last.administrator \/ last.moderateMembers)
    /\ last.reply = "refused"
    /\ birthdays.enabled
    /\ birthdays.rows["u2"] # NoBirthday

====
